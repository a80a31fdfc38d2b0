-------------------------- MODULE MembershipProofs --------------------------
(***************************************************************************)
(* A project keeps an administrator as long as its role changes, removals  *)
(* and deletion do not overlap, for any users, requests and bounds.        *)
(*                                                                         *)
(* The argument: the row such a request has read stays the row of the      *)
(* table, for nobody else changes or removes members meanwhile and an      *)
(* acceptance only adds one (RowKept).  So the count it made still says    *)
(* that somebody else is an administrator when it writes (OtherKept).      *)
(***************************************************************************)
EXTENDS Membership, FiniteSetTheorems, TLAPS

Exclusive == {"found", "checked", "deleted", "dropping"}

\* Types of the tables and of the handlers' places.
TypeInv ==
    /\ project \in {"absent", "rowOnly", "open", "revived", "deleted"}
    /\ joined \in 0 .. MaxMembers
    /\ member \in [MemberIds -> Rows \cup {None}]
    /\ \A i \in MemberIds : member[i] # None => i <= joined
    /\ at \in [Handlers -> Places]
    /\ DOMAIN job = Handlers

\* Before the project has its creator there is no member, no invitation and
\* no request.
Started == project \notin {"absent", "rowOnly"}

Quiet == ~Started => /\ joined = 0
                     /\ \A i \in InviteIds : invite[i] = None
                     /\ \A h \in Handlers : at[h] = "idle"

\* At most one exclusive request is under way.
Single == \A g, h \in Handlers :
             at[g] \in Exclusive /\ at[h] \in Exclusive => g = h

\* What a role change or a removal has read is still what the table holds.
RowKept == \A h \in Handlers : at[h] \in {"found", "checked"} =>
             /\ job[h].id \in MemberIds /\ job[h].row \in Rows
             /\ job[h].role \in Roles \cup {None}
             /\ member[job[h].id] = job[h].row

\* A demotion that passed the check leaves another administrator.
OtherKept == \A h \in Handlers : at[h] = "checked" /\ Demotes(job[h]) =>
               \E k \in Admins : k # job[h].id

IInv == TypeInv /\ Quiet /\ Single /\ RowKept /\ OtherKept /\ AdminKept

-----------------------------------------------------------------------------
\* More than one element: one besides any given.
LEMMA AnotherElement ==
    ASSUME NEW S, IsFiniteSet(S), ~(Cardinality(S) <= 1), NEW x
    PROVE  \E y \in S : y # x
<1>1. SUFFICES ASSUME S \subseteq {x} PROVE FALSE
  OBVIOUS
<1>2. IsFiniteSet({x}) /\ Cardinality({x}) = 1
  BY FS_Singleton
<1>3. Cardinality(S) <= Cardinality({x})
  BY <1>1, <1>2, FS_Subset
<1>4. QED
  BY <1>2, <1>3

\* The administrators are finitely many.
LEMMA AdminsFinite == IsFiniteSet(Admins)
<1>1. IsFiniteSet(1 .. MaxMembers)
  BY BoundsAssumption, FS_Interval
<1>2. Admins \subseteq 1 .. MaxMembers
  BY DEF Admins, Members, MemberIds
<1>3. QED
  BY <1>1, <1>2, FS_Subset

\* The initial state satisfies the inductive invariant.
LEMMA InitIInv == Init => IInv
  BY BoundsAssumption
     DEF Init, IInv, TypeInv, Quiet, Started, Single, RowKept, OtherKept, AdminKept,
         Places, Exclusive

\* What depends on the tables and the handlers alone survives a step that
\* leaves members and handlers as they are.
LEMMA SameRows ==
    ASSUME IInv, UNCHANGED <<member, joined, at, job>>,
           \/ project' = project /\ (Started \/ UNCHANGED invite)
           \/ project = "absent" /\ project' = "rowOnly" /\ UNCHANGED invite
    PROVE  IInv'
<1> USE DEF IInv
<1>1. TypeInv'
  BY DEF TypeInv
<1>2. Quiet'
  BY DEF Quiet, Started
<1>3. Single'
  BY DEF Single
<1>4. RowKept'
  BY DEF RowKept
<1>5. OtherKept'
  BY DEF OtherKept, Demotes, Admins, Members
<1>6. AdminKept'
  BY DEF AdminKept, Admins, Members
<1>7. QED
  BY <1>1, <1>2, <1>3, <1>4, <1>5, <1>6

\* A handler that goes to a place from which nothing is written on the
\* strength of what it read, the tables as they are.
LEMMA Elsewhere ==
    ASSUME IInv, NEW h \in Handlers, NEW j,
           NEW p \in {"idle", "inviting", "renaming", "dropping"}, Goto(h, p, j),
           UNCHANGED <<member, joined>>,
           \/ project' = project
           \/ project = "deleted" /\ project' = "revived",
           Exists \/ at[h] # "idle",
           p = "dropping" => \A g \in Handlers : at[g] \notin Exclusive
    PROVE  IInv'
<1> USE DEF IInv
<1> DEFINE Same(g) == at'[g] = at[g] /\ job'[g] = job[g]
<1>1. at' = [at EXCEPT ![h] = p] /\ job' = [job EXCEPT ![h] = j]
  BY DEF Goto
<1>2. at'[h] = p /\ \A g \in Handlers \ {h} : Same(g)
  BY <1>1 DEF TypeInv
<1>3. TypeInv'
  BY <1>1 DEF TypeInv, Places
<1>4. Quiet'
  BY <1>2 DEF Quiet, Started, Exists
<1>5. Single'
  BY <1>2 DEF Single, Exclusive
<1>6. RowKept'
  BY <1>2 DEF RowKept
<1>7. OtherKept'
  BY <1>2 DEF OtherKept, Demotes, Admins, Members
<1>8. AdminKept'
  BY DEF AdminKept, Admins, Members
<1>9. QED
  BY <1>3, <1>4, <1>5, <1>6, <1>7, <1>8

-----------------------------------------------------------------------------
\* One lemma per action that changes the members or goes on with a row read.

\* The creator is inserted before any request.
LEMMA CreateAdminKeeps == IInv /\ CreateAdmin => IInv'
<1> SUFFICES ASSUME IInv, CreateAdmin PROVE IInv'
  OBVIOUS
<1> USE DEF IInv
<1>1. 1 \in MemberIds /\ [user |-> Creator, role |-> "admin"] \in Rows
  BY BoundsAssumption, UsersAssumption, RolesAssumption DEF MemberIds, Rows
<1>2. member' = [member EXCEPT ![1] = [user |-> Creator, role |-> "admin"]]
  BY DEF CreateAdmin
<1>3. \A h \in Handlers : at'[h] = "idle"
  BY DEF CreateAdmin, Quiet, Started
<1>4. TypeInv'
  BY <1>1, <1>2, BoundsAssumption DEF TypeInv, CreateAdmin, MemberIds, Quiet, Started
<1>5. member'[1] = [user |-> Creator, role |-> "admin"] /\ 1 \in MemberIds
  BY <1>1, <1>2 DEF TypeInv
<1>6. AdminKept'
  BY <1>5, NoneAssumption, <1>1 DEF AdminKept, Admins, Members, Rows
<1>7. QED
  BY <1>3, <1>4, <1>6 DEF Quiet, Started, Single, Exclusive, RowKept, OtherKept,
                          CreateAdmin, Started

\* Deletion takes the members with the project; no other request of its kind
\* is under way.
LEMMA DeleteKeeps ==
    ASSUME NEW h \in Handlers, IInv, Delete(h)
    PROVE  IInv'
<1> USE DEF IInv
<1>1. at[h] = "dropping" /\ at' = [at EXCEPT ![h] = "idle"]
  BY DEF Delete, Done, Goto
<1>2. at'[h] = "idle" /\ \A g \in Handlers \ {h} : at'[g] = at[g]
  BY <1>1 DEF TypeInv
<1>3. \A g \in Handlers : at'[g] \notin Exclusive
  BY <1>1, <1>2 DEF Single, Exclusive
<1>4. TypeInv'
  BY <1>1 DEF TypeInv, Delete, Done, Goto, Places
<1>5. Quiet' /\ AdminKept'
  BY DEF Quiet, Started, AdminKept, Delete
<1>6. QED
  BY <1>3, <1>4, <1>5 DEF Single, RowKept, OtherKept, Exclusive

\* A new member does not touch the rows there are.
LEMMA AcceptKeeps ==
    ASSUME NEW i \in InviteIds, IInv, AcceptInvitation(i),
           invite[i].user \in Users, invite[i].role \in Roles
    PROVE  IInv'
<1> USE DEF IInv
<1>0. Started
  BY DEF Quiet, Started, AcceptInvitation, Open
<1>1. CASE FindByProjectAndUser(invite[i].user) # {}
  BY <1>0, <1>1, SameRows DEF AcceptInvitation
<1>2. CASE FindByProjectAndUser(invite[i].user) = {}
  <2> DEFINE n == joined + 1
             row == [user |-> invite[i].user, role |-> invite[i].role]
  <2>1. /\ joined < MaxMembers /\ joined' = n
        /\ member' = [member EXCEPT ![n] = row]
        /\ UNCHANGED <<project, at, job>>
    BY <1>2 DEF AcceptInvitation
  <2>2. n \in MemberIds /\ member[n] = None /\ row \in Rows
    BY <2>1, BoundsAssumption DEF TypeInv, MemberIds, Rows
  <2>3. \A k \in MemberIds : member[k] # None => member'[k] = member[k]
    BY <2>1, <2>2 DEF TypeInv
  <2>4. TypeInv'
    BY <2>1, <2>2, BoundsAssumption DEF TypeInv, MemberIds
  <2>5. Admins \subseteq Admins'
    BY <2>3 DEF Admins, Members
  <2>6. RowKept'
    BY <2>1, <2>3, NoneAssumption DEF RowKept, Rows
  <2>7. OtherKept'
    BY <2>1, <2>5 DEF OtherKept, Demotes
  <2>8. QED
    BY <1>0, <2>1, <2>4, <2>5, <2>6, <2>7 DEF Quiet, Started, Single, AdminKept
<1>3. QED
  BY <1>1, <1>2

\* Reading a member's row: no other request of its kind is under way.
LEMMA FindKeeps ==
    ASSUME OneAtATime, NEW h \in Handlers, NEW i \in 1 .. joined,
           NEW r \in Roles \cup {None}, IInv, FindMember(h, i, r)
    PROVE  IInv'
<1> USE DEF IInv
<1> DEFINE j == [NoJob EXCEPT !.id = i, !.role = r, !.row = member[i]]
<1>1. /\ at' = [at EXCEPT ![h] = "found"] /\ job' = [job EXCEPT ![h] = j]
      /\ UNCHANGED <<project, member, joined>> /\ Exists /\ member[i] # None
  BY DEF FindMember, Goto
<1>2. /\ at'[h] = "found" /\ job'[h] = j
      /\ \A g \in Handlers \ {h} : at'[g] = at[g] /\ job'[g] = job[g]
  BY <1>1 DEF TypeInv
<1>3. \A g \in Handlers : at[g] \notin Exclusive
  BY DEF FindMember, Alone, Exclusive
<1>4. i \in MemberIds /\ j.id = i /\ j.role = r /\ j.row = member[i]
  BY BoundsAssumption DEF TypeInv, MemberIds, NoJob
<1>5. TypeInv'
  BY <1>1 DEF TypeInv, Places
<1>6. Quiet' /\ AdminKept'
  BY <1>1 DEF Quiet, Started, Exists, AdminKept, Admins, Members
<1>7. Single'
  BY <1>2, <1>3 DEF Single
<1>8. RowKept'
  BY <1>1, <1>2, <1>3, <1>4 DEF RowKept, Exclusive, TypeInv
<1>9. OtherKept'
  BY <1>2, <1>3 DEF OtherKept, Exclusive
<1>10. QED
  BY <1>5, <1>6, <1>7, <1>8, <1>9

\* The check: a demotion goes on only when there is another administrator.
LEMMA CheckKeeps ==
    ASSUME NEW h \in Handlers, IInv, CheckLastAdmin(h)
    PROVE  IInv'
<1> USE DEF IInv
<1>1. CASE Done(h)
  BY <1>1, Elsewhere DEF CheckLastAdmin, Done
<1>2. CASE ~(Demotes(job[h]) /\ CountAdmins <= 1) /\ Goto(h, "checked", job[h])
  <2>1. /\ at' = [at EXCEPT ![h] = "checked"] /\ at[h] = "found"
        /\ job' = [job EXCEPT ![h] = job[h]]
        /\ UNCHANGED <<project, member, joined>>
    BY <1>2 DEF CheckLastAdmin, Goto
  <2>2. /\ at'[h] = "checked"
        /\ \A g \in Handlers \ {h} : at'[g] = at[g]
        /\ \A g \in Handlers : job'[g] = job[g]
    BY <2>1 DEF TypeInv
  <2>3. TypeInv'
    BY <2>1 DEF TypeInv, Places
  <2>4. Quiet' /\ AdminKept'
    BY <2>1 DEF Quiet, Started, AdminKept, Admins, Members
  <2>5. Single'
    BY <2>1, <2>2 DEF Single, Exclusive
  <2>6. RowKept'
    BY <2>1, <2>2 DEF RowKept
  <2>7. Demotes(job[h]) => \E k \in Admins : k # job[h].id
    BY <1>2, AdminsFinite, AnotherElement DEF CountAdmins
  <2>8. OtherKept'
    BY <2>1, <2>2, <2>7 DEF OtherKept, Demotes, Admins, Members
  <2>9. QED
    BY <2>3, <2>4, <2>5, <2>6, <2>8
<1>3. QED
  BY <1>1, <1>2 DEF CheckLastAdmin

\* What the two writes have in common: the request's row alone changes, an
\* administrator remains, and the request leaves "checked".
LEMMA WriteKeeps ==
    ASSUME NEW h \in Handlers, IInv, at[h] = "checked",
           NEW row \in Rows \cup {None},
           member' = [member EXCEPT ![job[h].id] = row],
           (row # None /\ row.role # "admin") \/ row = None => Demotes(job[h])
               \/ job[h].row.role # "admin",
           UNCHANGED <<project, joined>>,
           NEW p \in {"idle", "deleted"}, NEW j, Goto(h, p, j)
    PROVE  IInv'
<1> USE DEF IInv
<1>1. /\ at' = [at EXCEPT ![h] = p] /\ job' = [job EXCEPT ![h] = j]
      /\ job[h].id \in MemberIds /\ member[job[h].id] = job[h].row
      /\ job[h].row # None
  BY NoneAssumption DEF Goto, RowKept, Rows
<1>2. /\ at'[h] = p
      /\ \A g \in Handlers \ {h} : at'[g] = at[g] /\ job'[g] = job[g]
  BY <1>1 DEF TypeInv
<1>3. \A g \in Handlers \ {h} : at'[g] \notin Exclusive
  BY <1>2 DEF Single, Exclusive
<1>4. /\ member'[job[h].id] = row
      /\ \A k \in MemberIds \ {job[h].id} : member'[k] = member[k]
  BY <1>1 DEF TypeInv
<1>5. TypeInv'
  <2>1. member' \in [MemberIds -> Rows \cup {None}]
    BY DEF TypeInv
  <2>2. \A i \in MemberIds : member'[i] # None => i <= joined
    BY <1>1, <1>4 DEF TypeInv
  <2>3. QED
    BY <1>1, <2>1, <2>2 DEF TypeInv, Places
<1>6. Quiet'
  BY DEF Quiet, Started
<1>7. Single'
  BY <1>2, <1>3 DEF Single
<1>8. RowKept' /\ OtherKept'
  BY <1>2, <1>3 DEF RowKept, OtherKept, Exclusive
<1>9. AdminKept'
  <2>1. CASE Demotes(job[h])
    <3>1. PICK k \in Admins : k # job[h].id
      BY <2>1 DEF OtherKept
    <3>2. k \in Admins'
      BY <1>4, <3>1 DEF Admins, Members
    <3>3. QED
      BY <3>2 DEF AdminKept
  <2>2. CASE row # None /\ row.role = "admin"
    BY <1>1, <1>4, <2>2 DEF AdminKept, Admins, Members
  <2>3. CASE job[h].row.role # "admin"
    BY <1>1, <1>4, <2>3 DEF AdminKept, Admins, Members
  <2>4. QED
    BY <2>1, <2>2, <2>3
<1>10. QED
  BY <1>5, <1>6, <1>7, <1>8, <1>9

\* Save of a role.
LEMMA SaveKeeps ==
    ASSUME NEW h \in Handlers, IInv, SaveMember(h)
    PROVE  IInv'
<1> DEFINE row == [user |-> job[h].row.user, role |-> job[h].role]
<1>1. /\ at[h] = "checked" /\ job[h].row \in Rows
      /\ job[h].role \in Roles /\ member[job[h].id] # None
  BY NoneAssumption DEF SaveMember, IInv, RowKept, Rows
<1>2. row \in Rows /\ row # None
  BY <1>1, NoneAssumption DEF Rows
<1>3. member' = [member EXCEPT ![job[h].id] = row]
  BY <1>1 DEF SaveMember
<1>4. row.role # "admin" => Demotes(job[h]) \/ job[h].row.role # "admin"
  BY DEF Demotes
<1>5. Goto(h, "idle", NoJob) /\ UNCHANGED <<project, joined>>
  BY DEF SaveMember, Done
<1>6. QED
  BY <1>1, <1>2, <1>3, <1>4, <1>5, WriteKeeps

\* Deletion of a member's row.
LEMMA RemoveKeeps ==
    ASSUME NEW h \in Handlers, IInv, DeleteMember(h)
    PROVE  IInv'
<1>1. /\ at[h] = "checked" /\ job[h].role = None
      /\ member' = [member EXCEPT ![job[h].id] = None]
      /\ UNCHANGED <<project, joined>> /\ Goto(h, "deleted", job[h])
  BY DEF DeleteMember
<1>2. Demotes(job[h]) \/ job[h].row.role # "admin"
  BY <1>1, RolesAssumption DEF Demotes
<1>3. QED
  BY <1>1, <1>2, WriteKeeps

-----------------------------------------------------------------------------
\* Types of the invitations, and of the ones about to be written.
InviteInv ==
    /\ invite \in [InviteIds -> InviteRows \cup {None}]
    /\ at \in [Handlers -> Places] /\ DOMAIN job = Handlers
    /\ \A h \in Handlers : at[h] = "inviting" =>
          job[h].user \in Users /\ job[h].role \in Roles

\* A handler that goes anywhere but to the transaction of an invitation.
LEMMA ElsewhereInvite ==
    ASSUME InviteInv, NEW h \in Handlers, NEW p \in Places, NEW j,
           Goto(h, p, j), invite' \in [InviteIds -> InviteRows \cup {None}],
           p = "inviting" => j.user \in Users /\ j.role \in Roles
    PROVE  InviteInv'
  BY DEF InviteInv, Goto

\* Closing an invitation, or finding it late, keeps its row a row.
LEMMA SetStatusTyped ==
    ASSUME InviteInv, NEW i \in InviteIds, invite[i] # None,
           NEW s \in InviteStatuses,
           \/ invite' = [invite EXCEPT ![i].status = s]
           \/ invite' = [invite EXCEPT ![i].late = TRUE]
    PROVE  invite' \in [InviteIds -> InviteRows \cup {None}]
<1>1. invite[i] \in InviteRows
  BY DEF InviteInv
<1>2. /\ [invite[i] EXCEPT !.status = s] \in InviteRows
      /\ [invite[i] EXCEPT !.late = TRUE] \in InviteRows
  BY <1>1 DEF InviteRows
<1>3. QED
  BY <1>2 DEF InviteInv

\* Each step of a handler keeps the invitations typed.
LEMMA StepInvite ==
    ASSUME InviteInv, NEW h \in Handlers, Step(h)
    PROVE  InviteInv'
<1>1. CASE Rename(h) \/ SaveProject(h) \/ AskDelete(h) \/ CheckLastAdmin(h)
             \/ SaveMember(h) \/ DeleteMember(h) \/ IncrMemberCount(h)
  <2>1. invite' = invite
    BY <1>1 DEF Rename, SaveProject, AskDelete, CheckLastAdmin, SaveMember,
                DeleteMember, IncrMemberCount
  <2>2. \E p \in Places \ {"inviting"} : \E j : Goto(h, p, j)
    BY <1>1 DEF Rename, SaveProject, AskDelete, CheckLastAdmin, SaveMember,
                DeleteMember, IncrMemberCount, Done, Places
  <2>3. QED
    BY <2>1, <2>2, ElsewhereInvite DEF InviteInv
<1>2. CASE Delete(h)
  <2>1. Goto(h, "idle", NoJob) /\ "idle" \in Places
    BY <1>2 DEF Delete, Done, Places
  <2>2. invite' \in [InviteIds -> InviteRows \cup {None}]
    BY <1>2 DEF Delete
  <2>3. QED
    BY <2>1, <2>2, ElsewhereInvite
<1>3. ASSUME NEW u \in Users, NEW r \in Roles, InviteMember(h, u, r)
      PROVE  InviteInv'
  <2> DEFINE j == [NoJob EXCEPT !.user = u, !.role = r]
  <2>1. Goto(h, "inviting", j) /\ invite' = invite /\ "inviting" \in Places
    BY <1>3 DEF InviteMember, Places
  <2>2. j.user = u /\ j.role = r
    BY DEF NoJob
  <2>3. QED
    BY <2>1, <2>2, ElsewhereInvite DEF InviteInv
<1>4. CASE Invite(h)
  <2> DEFINE row == [user |-> job[h].user, role |-> job[h].role,
                     status |-> "pending", late |-> FALSE]
  <2>1. row \in InviteRows
    BY <1>4 DEF Invite, InviteInv, InviteRows, InviteStatuses
  <2>2. \/ invite' = invite
        \/ \E i \in InviteIds : invite' = [invite EXCEPT ![i] = row]
    BY <1>4 DEF Invite, PendingFor, Unused
  <2>3. invite' \in [InviteIds -> InviteRows \cup {None}]
    BY <2>1, <2>2 DEF InviteInv
  <2>4. Goto(h, "idle", NoJob) /\ "idle" \in Places
    BY <1>4 DEF Invite, Done, Places
  <2>5. QED
    BY <2>3, <2>4, ElsewhereInvite
<1>5. ASSUME NEW i, NEW r, FindMember(h, i, r)
      PROVE  InviteInv'
  <2>1. "found" \in Places /\ invite' = invite
    BY <1>5 DEF Places, FindMember
  <2>2. \E j : Goto(h, "found", j)
    BY <1>5 DEF FindMember
  <2>3. QED
    BY <2>1, <2>2, ElsewhereInvite DEF InviteInv
<1>6. QED
  BY <1>1, <1>2, <1>3, <1>4, <1>5 DEF Step, RemoveMember, UpdateRole

\* The invitations in the table are invitations to users, in roles, in every
\* reachable state.
LEMMA InvitesTyped == Spec => []InviteInv
<1>1. Init => InviteInv
  BY DEF Init, InviteInv, Places
<1>2. InviteInv /\ [Next]_vars => InviteInv'
  <2> SUFFICES ASSUME InviteInv, [Next]_vars PROVE InviteInv'
    OBVIOUS
  <2>1. CASE UNCHANGED vars \/ CreateProject \/ CreateAdmin \/ Expire
    BY <2>1 DEF vars, CreateProject, CreateAdmin, Expire, InviteInv
  <2>2. ASSUME NEW h \in Handlers, Step(h) PROVE InviteInv'
    BY <2>2, StepInvite
  <2>3. ASSUME NEW i \in InviteIds, Decide(i) PROVE InviteInv'
    <3>1. UNCHANGED <<at, job>> /\ invite[i] # None
      BY <2>3 DEF Decide, TimeOut, AcceptInvitation, RejectInvitation,
                  RevokeInvitation, Open
    <3>2. \E s \in InviteStatuses :
             \/ invite' = [invite EXCEPT ![i].status = s]
             \/ invite' = [invite EXCEPT ![i].late = TRUE]
      BY <2>3 DEF Decide, TimeOut, AcceptInvitation, RejectInvitation,
                  RevokeInvitation, SetStatus, InviteStatuses
    <3>3. invite' \in [InviteIds -> InviteRows \cup {None}]
      BY <3>1, <3>2, SetStatusTyped
    <3>4. QED
      BY <3>1, <3>3 DEF InviteInv
  <2>4. QED
    BY <2>1, <2>2, <2>3 DEF Next
<1>3. QED
  BY <1>1, <1>2, PTL DEF Spec

-----------------------------------------------------------------------------
\* Each step of a handler keeps the inductive invariant.
LEMMA StepKeeps ==
    ASSUME OneAtATime, IInv, NEW h \in Handlers, Step(h)
    PROVE  IInv'
<1> USE DEF IInv
<1>1. CASE Rename(h)
  <2>1. \E j : Goto(h, "renaming", j)
    BY <1>1 DEF Rename
  <2>2. QED
    BY <1>1, <2>1, Elsewhere DEF Rename
<1>2. CASE SaveProject(h)
  BY <1>2, Elsewhere DEF SaveProject, Done
<1>3. CASE AskDelete(h)
  <2>1. \A g \in Handlers : at[g] \notin Exclusive
    BY <1>3 DEF AskDelete, Alone, Exclusive
  <2>2. QED
    BY <1>3, <2>1, Elsewhere DEF AskDelete
<1>4. CASE Delete(h)
  BY <1>4, DeleteKeeps
<1>5. ASSUME NEW u \in Users, NEW r \in Roles, InviteMember(h, u, r)
      PROVE  IInv'
  <2>1. \E j : Goto(h, "inviting", j)
    BY <1>5 DEF InviteMember
  <2>2. QED
    BY <1>5, <2>1, Elsewhere DEF InviteMember
<1>6. CASE Invite(h)
  BY <1>6, Elsewhere DEF Invite, Done
<1>7. ASSUME NEW i \in 1 .. joined, NEW r \in Roles \cup {None},
             FindMember(h, i, r)
      PROVE  IInv'
  BY <1>7, FindKeeps
<1>8. CASE CheckLastAdmin(h)
  BY <1>8, CheckKeeps
<1>9. CASE SaveMember(h)
  BY <1>9, SaveKeeps
<1>10. CASE DeleteMember(h)
  BY <1>10, RemoveKeeps
<1>11. CASE IncrMemberCount(h)
  BY <1>11, Elsewhere DEF IncrMemberCount, Done
<1>12. QED
  BY <1>1, <1>2, <1>3, <1>4, <1>5, <1>6, <1>7, <1>8, <1>9, <1>10, <1>11
     DEF Step, RemoveMember, UpdateRole

\* The inductive invariant holds in every reachable state, if role changes,
\* removals and deletion do not overlap.
LEMMA IInvAlways ==
    ASSUME OneAtATime
    PROVE  Spec => []IInv
<1>1. InviteInv /\ IInv /\ [Next]_vars => IInv'
  <2> SUFFICES ASSUME InviteInv, IInv, [Next]_vars PROVE IInv'
    OBVIOUS
  <2>1. CASE UNCHANGED vars \/ CreateProject \/ Expire
    BY <2>1, SameRows DEF vars, CreateProject, Expire
  <2>2. CASE CreateAdmin
    BY <2>2, CreateAdminKeeps
  <2>3. ASSUME NEW h \in Handlers, Step(h) PROVE IInv'
    BY <2>3, StepKeeps
  <2>4. ASSUME NEW i \in InviteIds, Decide(i) PROVE IInv'
    <3>1. CASE AcceptInvitation(i)
      <4>1. invite[i] \in InviteRows
        BY <3>1 DEF AcceptInvitation, Open, InviteInv
      <4>2. QED
        BY <3>1, <4>1, AcceptKeeps DEF InviteRows
    <3>2. CASE TimeOut(i) \/ RejectInvitation(i)
      <4>1. invite[i] # None /\ UNCHANGED <<project, member, joined, at, job>>
        BY <3>2 DEF TimeOut, RejectInvitation, Open
      <4>2. Started
        BY <4>1 DEF IInv, Quiet
      <4>3. QED
        BY <4>1, <4>2, SameRows
    <3>3. QED
      BY <2>4, <3>1, <3>2 DEF Decide, RevokeInvitation
  <2>5. QED
    BY <2>1, <2>2, <2>3, <2>4 DEF Next
<1>2. QED
  BY <1>1, InitIInv, InvitesTyped, PTL DEF Spec

\* A project with its creator keeps an administrator, if its role changes,
\* removals and deletion do not overlap: the checks of UpdateRole and
\* RemoveMember are enough then, whatever invitations, acceptances and renames
\* happen meanwhile.
THEOREM AdminKeptCorrect ==
    ASSUME OneAtATime
    PROVE  Spec => []AdminKept
<1>1. IInv => AdminKept
  BY DEF IInv
<1>2. QED
  BY <1>1, IInvAlways, PTL

-----------------------------------------------------------------------------
(***************************************************************************)
(* Who becomes a member.                                                   *)
(***************************************************************************)
\* The step fills the row of the member id i, which was empty.
Joins(i) == member[i] = None /\ member'[i] # None

\* An open invitation, which the step closes as accepted, gives row i.
Invited(i) == \E k \in InviteIds :
    /\ invite[k] # None /\ ~invite[k].late
    /\ invite[k].status = "pending"
    /\ invite'[k].status = "accepted"
    /\ member'[i] = [user |-> invite[k].user, role |-> invite[k].role]

\* Who accepts an invitation that is open joins as it says.
LEMMA AcceptInvites ==
    ASSUME InviteInv, TypeInv, NEW k \in InviteIds, AcceptInvitation(k),
           NEW i \in MemberIds, Joins(i)
    PROVE  Invited(i)
<1>1. Open(k) /\ invite[k] \in InviteRows
  BY DEF AcceptInvitation, Open, InviteInv
<1>2. invite'[k].status = "accepted"
  BY <1>1 DEF AcceptInvitation, SetStatus, InviteInv, InviteRows
<1>3. member'[i] = [user |-> invite[k].user, role |-> invite[k].role]
  BY DEF AcceptInvitation, Joins, TypeInv
<1>4. QED
  BY <1>1, <1>2, <1>3 DEF Open, Invited

\* No handler fills an empty row: a role change that has read a row writes it
\* while it is still there.
LEMMA HandlersAddNone ==
    ASSUME IInv, NEW h \in Handlers, Step(h), NEW i \in MemberIds
    PROVE  ~Joins(i)
<1>1. CASE SaveMember(h)
  <2>1. job[h].id \in MemberIds /\ member[job[h].id] # None
    BY <1>1, RolesAssumption, NoneAssumption
       DEF SaveMember, IInv, RowKept, Rows
  <2>2. member' = [member EXCEPT ![job[h].id] =
                      [user |-> job[h].row.user, role |-> job[h].role]]
    BY <1>1, <2>1 DEF SaveMember
  <2>3. QED
    BY <2>1, <2>2 DEF Joins, IInv, TypeInv
<1>2. CASE DeleteMember(h) \/ Delete(h)
  BY <1>2 DEF DeleteMember, Delete, Joins, IInv, TypeInv
<1>3. CASE ~SaveMember(h) /\ ~DeleteMember(h) /\ ~Delete(h)
  <2>1. member' = member
    BY <1>3 DEF Step, Rename, SaveProject, AskDelete, InviteMember, Invite,
                RemoveMember, UpdateRole, FindMember, CheckLastAdmin,
                IncrMemberCount
  <2>2. QED
    BY <2>1 DEF Joins
<1>4. QED
  BY <1>1, <1>2, <1>3

\* In a project with its creator nobody becomes a member but by accepting an
\* invitation that is open, if role changes, removals and deletion do not
\* overlap.  If they do, a role change can put back the row of a member who
\* was removed since it was read.
THEOREM OnlyByInvitationCorrect ==
    ASSUME OneAtATime
    PROVE  Spec => OnlyByInvitation
<1> DEFINE OnlyInvited ==
        project = "open" => \A i \in MemberIds :
          member[i] = None /\ member'[i] # None =>
              \E k \in InviteIds :
                  /\ invite[k] # None /\ ~invite[k].late
                  /\ invite[k].status = "pending"
                  /\ invite'[k].status = "accepted"
                  /\ member'[i] = [user |-> invite[k].user,
                                   role |-> invite[k].role]
<1>1. InviteInv /\ IInv /\ [Next]_vars => OnlyInvited
  <2> SUFFICES ASSUME InviteInv, IInv, [Next]_vars, project = "open",
                      NEW i \in MemberIds, Joins(i)
               PROVE  Invited(i)
    BY DEF Joins, Invited
  <2>1. CASE UNCHANGED vars \/ CreateProject \/ CreateAdmin \/ Expire
    BY <2>1 DEF vars, CreateProject, CreateAdmin, Expire, Joins
  <2>2. CASE \E h \in Handlers : Step(h)
    BY <2>2, HandlersAddNone
  <2>3. ASSUME NEW k \in InviteIds, Decide(k)
        PROVE  Invited(i)
    <3>1. CASE AcceptInvitation(k)
      BY <3>1, AcceptInvites DEF IInv
    <3>2. QED
      BY <2>3, <3>1 DEF Decide, TimeOut, RejectInvitation, RevokeInvitation,
                        Joins
  <2>4. QED
    BY <2>1, <2>2, <2>3 DEF Next
<1>2. InviteInv /\ IInv /\ [Next]_vars => [OnlyInvited]_vars
  BY <1>1
<1> HIDE DEF OnlyInvited
<1>3. Spec => [][OnlyInvited]_vars
  BY <1>2, IInvAlways, InvitesTyped, PTL DEF Spec
<1>4. QED
  BY <1>3 DEF OnlyInvited, OnlyByInvitation

-----------------------------------------------------------------------------
(***************************************************************************)
(* The types, and the column member_count, whatever overlaps.              *)
(***************************************************************************)
\* What a handler has read is a row of the table at that time; ids are never
\* given out again, so a row that is still there is still that user's.
Reading == {h \in Handlers : at[h] \in {"found", "checked"}}

ReadInv == \A h \in Handlers :
    /\ h \in Reading =>
          /\ job[h].id \in 1 .. joined
          /\ job[h].row \in Rows /\ job[h].role \in Roles \cup {None}
          /\ member[job[h].id] # None =>
                member[job[h].id].user = job[h].row.user
          /\ \A g \in Reading : job[g].id = job[h].id =>
                job[g].row.user = job[h].row.user
    /\ at[h] = "renaming" => job[h].saw \in Int

TypedInv == TypeOK /\ InviteInv /\ Quiet /\ ReadInv

\* The removals that have deleted the row and not yet decremented the count.
Removing == {h \in Handlers : at[h] = "deleted"}

CountInv == /\ IsFiniteSet(Removing)
            /\ project = "rowOnly" => count = 1
            /\ CountRight

\* The tables as they are.
TablesOK == /\ joined \in 0 .. MaxMembers
            /\ member \in [MemberIds -> Rows \cup {None}]
            /\ \A i \in Members : i <= joined
            /\ \A i, j \in Members : member[i].user = member[j].user => i = j

\* What TypeOK says of the project's columns and the bounds.
ColumnsOK == /\ project \in {"absent", "rowOnly", "open", "revived", "deleted"}
             /\ count \in Int /\ cached \in Int \cup {None}
             /\ errors \in 0 .. MaxErrors /\ miscounted \in BOOLEAN

LEMMA TypedParts ==
    /\ TypedInv => TablesOK /\ ColumnsOK
    /\ TablesOK /\ ColumnsOK /\ InviteInv => TypeOK
    /\ (TablesOK /\ ColumnsOK /\ InviteInv)' => TypeOK'
  BY DEF TypedInv, TypeOK, TablesOK, ColumnsOK, InviteInv, Members

\* The count a handler reads is a number.
LEMMA CountRead == TypedInv => FindByID \in Int
  BY DEF TypedInv, TypeOK, FindByID

\* A handler goes on, the members as they are.
LEMMA GotoReads ==
    ASSUME TypedInv, NEW h \in Handlers, NEW p, NEW j, Goto(h, p, j),
           UNCHANGED <<member, joined>>,
           p = "renaming" => j.saw \in Int,
           p \in {"found", "checked"} =>
              /\ j.id \in 1 .. joined
              /\ j.row \in Rows /\ j.role \in Roles \cup {None}
              /\ member[j.id] # None => member[j.id].user = j.row.user
              /\ \A g \in Reading : job[g].id = j.id =>
                    job[g].row.user = j.row.user
    PROVE  ReadInv'
<1>1. /\ at'[h] = p /\ job'[h] = j
      /\ \A g \in Handlers \ {h} : at'[g] = at[g] /\ job'[g] = job[g]
  BY DEF TypedInv, InviteInv, Goto
<1>2. QED
  BY <1>1 DEF TypedInv, ReadInv, Reading

\* One row of a member is written, in place, by a handler that leaves.
LEMMA PutRow ==
    ASSUME TypedInv, NEW h \in Handlers, NEW i \in 1 .. joined,
           NEW row \in Rows \cup {None}, NEW p, NEW j, Goto(h, p, j),
           p \in {"idle", "deleted"},
           member' = [member EXCEPT ![i] = row], joined' = joined,
           row # None => \A k \in Members : member[k].user = row.user => k = i,
           row # None => \A g \in Reading :
              job[g].id = i => job[g].row.user = row.user
    PROVE  TablesOK' /\ ReadInv'
<1>1. /\ joined \in 0 .. MaxMembers
      /\ member \in [MemberIds -> Rows \cup {None}]
  BY DEF TypedInv, TypeOK
<1>2. i \in MemberIds
  BY <1>1, BoundsAssumption DEF MemberIds
<1>3. member'[i] = row /\ \A k \in MemberIds \ {i} : member'[k] = member[k]
  BY <1>1, <1>2
<1>4. member' \in [MemberIds -> Rows \cup {None}]
  BY <1>1
<1>5. \A k \in Members' : k <= joined'
  BY <1>2, <1>3 DEF TypedInv, TypeOK, Members
<1>6. \A k, l \in Members' : member'[k].user = member'[l].user => k = l
  BY <1>2, <1>3 DEF TypedInv, TypeOK, Members
<1>7. /\ at'[h] = p
      /\ \A g \in Handlers \ {h} : at'[g] = at[g] /\ job'[g] = job[g]
  BY DEF TypedInv, InviteInv, Goto
<1>8. ReadInv'
  <2>1. Reading' \subseteq Reading \ {h}
    BY <1>7 DEF Reading
  <2>2. 1 .. joined \subseteq MemberIds
    BY <1>1, BoundsAssumption DEF MemberIds
  <2>3. \A g \in Reading \ {h} :
           /\ job[g].id \in 1 .. joined
           /\ job[g].row \in Rows /\ job[g].role \in Roles \cup {None}
           /\ member'[job[g].id] # None =>
                 member'[job[g].id].user = job[g].row.user
    BY <1>3, <2>2 DEF TypedInv, ReadInv, Reading
  <2>4. QED
    BY <1>7, <2>1, <2>3 DEF TypedInv, ReadInv, Reading
<1>9. QED
  BY <1>1, <1>4, <1>5, <1>6, <1>8 DEF TablesOK

\* A decision about an invitation.
LEMMA DecideTyped ==
    ASSUME TypedInv, NEW i \in InviteIds, Decide(i), InviteInv'
    PROVE  TypedInv'
<1>1. invite[i] \in InviteRows /\ Started /\ invite[i] # None
  BY DEF TypedInv, InviteInv, Quiet, Started, Decide, TimeOut, AcceptInvitation,
         RejectInvitation, RevokeInvitation, Open
<1>2. UNCHANGED <<project, cached, at, job, errors, miscounted>>
  BY DEF Decide, TimeOut, AcceptInvitation, RejectInvitation, RevokeInvitation
<1>3. Quiet'
  BY <1>1, <1>2 DEF Quiet, Started
<1>4. CASE UNCHANGED <<count, member, joined>>
  <2>1. TablesOK' /\ ColumnsOK'
    BY <1>2, <1>4, TypedParts DEF TablesOK, ColumnsOK, Members
  <2>2. ReadInv'
    BY <1>2, <1>4 DEF TypedInv, ReadInv, Reading
  <2>3. QED
    BY <1>3, <2>1, <2>2, TypedParts DEF TypedInv
<1>5. CASE ~UNCHANGED <<count, member, joined>>
  <2> DEFINE n == joined + 1
             row == [user |-> invite[i].user, role |-> invite[i].role]
  <2>1. /\ AcceptInvitation(i) /\ FindByProjectAndUser(row.user) = {}
        /\ joined < MaxMembers /\ joined' = n /\ count' = count + 1
        /\ member' = [member EXCEPT ![n] = row]
    BY <1>5 DEF Decide, TimeOut, AcceptInvitation, RejectInvitation,
                RevokeInvitation
  <2>2. /\ joined \in 0 .. MaxMembers
        /\ member \in [MemberIds -> Rows \cup {None}]
        /\ \A k \in Members : k <= joined
    BY DEF TypedInv, TypeOK
  <2>3. n \in MemberIds /\ row \in Rows
    BY <1>1, <2>1, <2>2, BoundsAssumption DEF MemberIds, InviteRows, Rows
  <2> HIDE DEF n, row
  <2>4. member'[n] = row /\ \A k \in MemberIds \ {n} : member'[k] = member[k]
    BY <2>1, <2>2, <2>3
  <2>5. member' \in [MemberIds -> Rows \cup {None}]
    BY <2>1, <2>2, <2>3
  <2>6. joined' \in 0 .. MaxMembers /\ joined < joined'
    BY <2>1, <2>2, <2>3, BoundsAssumption DEF MemberIds, n
  <2>7. \A k \in Members' : k <= joined'
    BY <2>1, <2>2, <2>4, <2>6 DEF Members, MemberIds
  <2>8. \A k \in Members : member[k].user # row.user
    BY <2>1 DEF FindByProjectAndUser
  <2>9. \A k, l \in Members' : member'[k].user = member'[l].user => k = l
    BY <2>3, <2>4, <2>8 DEF TypedInv, TypeOK, Members
  <2>10. ReadInv'
    <3>1. 1 .. joined \subseteq MemberIds \ {n} /\ 1 .. joined \subseteq 1 .. joined'
      BY <2>2, <2>6, BoundsAssumption DEF n, MemberIds
    <3>2. \A k \in 1 .. joined : member'[k] = member[k] /\ k \in 1 .. joined'
      BY <2>4, <3>1
    <3>3. QED
      BY <1>2, <3>2 DEF TypedInv, ReadInv, Reading
  <2>11. TablesOK'
    BY <2>5, <2>6, <2>7, <2>9 DEF TablesOK
  <2>12. ColumnsOK'
    BY <1>2, <2>1 DEF TypedInv, TypeOK, ColumnsOK
  <2>13. QED
    BY <1>3, <2>10, <2>11, <2>12, TypedParts DEF TypedInv
<1>6. QED
  BY <1>4, <1>5

\* A step of a handler that leaves the members as they are.
LEMMA ReadTyped ==
    ASSUME TypedInv, NEW h \in Handlers, Step(h), UNCHANGED <<member, joined>>,
           InviteInv'
    PROVE  TypedInv'
<1>1. Started /\ Started'
  <2>1. Exists \/ at[h] # "idle"
    BY DEF Step, Rename, SaveProject, AskDelete, Delete, InviteMember, Invite,
           RemoveMember, UpdateRole, FindMember, CheckLastAdmin, SaveMember,
           DeleteMember, IncrMemberCount
  <2>2. Started
    BY <2>1 DEF TypedInv, Quiet, Started, Exists
  <2>3. project' = project \/ project' \in {"deleted", "revived"}
    BY DEF Step, Rename, SaveProject, AskDelete, Delete, InviteMember, Invite,
           RemoveMember, UpdateRole, FindMember, CheckLastAdmin, SaveMember,
           DeleteMember, IncrMemberCount
  <2>4. QED
    BY <2>2, <2>3 DEF Started
<1>2. FindByID \in Int /\ ColumnsOK /\ TablesOK
  BY CountRead, TypedParts
<1>3. TablesOK'
  BY <1>2 DEF TablesOK, Members
<1>4. CASE Rename(h)
  <2>1. Goto(h, "renaming", [NoJob EXCEPT !.saw = FindByID])
    BY <1>4 DEF Rename
  <2>2. [NoJob EXCEPT !.saw = FindByID].saw = FindByID
    BY DEF NoJob
  <2>3. ReadInv'
    BY <1>2, <2>1, <2>2, GotoReads
  <2>4. ColumnsOK'
    BY <1>2, <1>4 DEF ColumnsOK, Rename, Reads
  <2>5. QED
    BY <1>1, <1>3, <2>3, <2>4, TypedParts DEF TypedInv, Quiet
<1>5. CASE SaveProject(h)
  <2>1. ColumnsOK'
    BY <1>2, <1>5 DEF TypedInv, ReadInv, ColumnsOK, SaveProject
  <2>2. ReadInv'
    BY <1>5, GotoReads DEF SaveProject, Done
  <2>3. QED
    BY <1>1, <1>3, <2>1, <2>2, TypedParts DEF TypedInv, Quiet
<1>6. CASE AskDelete(h) \/ Delete(h) \/ Invite(h)
  <2>1. ColumnsOK'
    BY <1>2, <1>6 DEF ColumnsOK, AskDelete, Delete, Invite
  <2>2. ReadInv'
    BY <1>6, GotoReads DEF AskDelete, Delete, Invite, Done
  <2>3. QED
    BY <1>1, <1>3, <2>1, <2>2, TypedParts DEF TypedInv, Quiet
<1>7. ASSUME NEW u \in Users, NEW r \in Roles, InviteMember(h, u, r)
      PROVE  TypedInv'
  <2>1. ColumnsOK'
    BY <1>2, <1>7 DEF ColumnsOK, InviteMember, Reads
  <2>2. ReadInv'
    BY <1>7, GotoReads DEF InviteMember
  <2>3. QED
    BY <1>1, <1>3, <2>1, <2>2, TypedParts DEF TypedInv, Quiet
<1>8. ASSUME NEW i \in 1 .. joined, NEW r \in Roles \cup {None},
             FindMember(h, i, r)
      PROVE  TypedInv'
  <2> DEFINE j == [NoJob EXCEPT !.id = i, !.role = r, !.row = member[i]]
  <2>1. Goto(h, "found", j) /\ member[i] # None
    BY <1>8 DEF FindMember
  <2>2. j.id = i /\ j.role = r /\ j.row = member[i]
    BY DEF NoJob
  <2>3. member[i] \in Rows
    BY <1>2, <2>1, BoundsAssumption DEF TablesOK, MemberIds
  <2> HIDE DEF j
  <2>4. ReadInv'
    <3>1. \A g \in Reading : job[g].id = i => job[g].row.user = member[i].user
      BY <2>1 DEF TypedInv, ReadInv, Reading
    <3>2. QED
      BY <2>1, <2>2, <2>3, <3>1, GotoReads
  <2>5. ColumnsOK'
    BY <1>2, <1>8 DEF ColumnsOK, FindMember, Reads
  <2>6. QED
    BY <1>1, <1>3, <2>4, <2>5, TypedParts DEF TypedInv, Quiet
<1>9. CASE CheckLastAdmin(h)
  <2>1. ColumnsOK'
    BY <1>2, <1>9 DEF ColumnsOK, CheckLastAdmin
  <2>2. at[h] = "found" /\ (Goto(h, "idle", NoJob) \/ Goto(h, "checked", job[h]))
    BY <1>9 DEF CheckLastAdmin, Done
  <2>3. ReadInv'
    <3>1. CASE Goto(h, "idle", NoJob)
      BY <3>1, GotoReads
    <3>2. CASE Goto(h, "checked", job[h])
      <4>1. /\ job[h].id \in 1 .. joined
            /\ job[h].row \in Rows /\ job[h].role \in Roles \cup {None}
            /\ member[job[h].id] # None =>
                  member[job[h].id].user = job[h].row.user
            /\ \A g \in Reading : job[g].id = job[h].id =>
                  job[g].row.user = job[h].row.user
        BY <2>2 DEF TypedInv, ReadInv, Reading
      <4>2. QED
        BY <3>2, <4>1, GotoReads
    <3>3. QED
      BY <2>2, <3>1, <3>2
  <2>4. QED
    BY <1>1, <1>3, <2>1, <2>3, TypedParts DEF TypedInv, Quiet
<1>10. CASE SaveMember(h) \/ DeleteMember(h) \/ IncrMemberCount(h)
  <2>1. ColumnsOK'
    <3>1. CASE SaveMember(h) \/ DeleteMember(h)
      BY <1>2, <3>1 DEF ColumnsOK, SaveMember, DeleteMember
    <3>2. CASE IncrMemberCount(h)
      <4>1. count' \in Int
        BY <1>2, <3>2 DEF ColumnsOK, IncrMemberCount
      <4>2. errors' \in 0 .. MaxErrors
        BY <1>2, <3>2, BoundsAssumption DEF ColumnsOK, IncrMemberCount
      <4>3. UNCHANGED <<project, cached>> /\ miscounted' \in BOOLEAN
        BY <1>2, <3>2 DEF ColumnsOK, IncrMemberCount
      <4>4. QED
        BY <1>2, <4>1, <4>2, <4>3 DEF ColumnsOK
    <3>3. QED
      BY <1>10, <3>1, <3>2
  <2>2. \E p \in {"idle", "deleted"} : \E j : Goto(h, p, j)
    BY <1>10 DEF SaveMember, DeleteMember, IncrMemberCount, Done
  <2>3. ReadInv'
    BY <2>2, GotoReads
  <2>4. QED
    BY <1>1, <1>3, <2>1, <2>3, TypedParts DEF TypedInv, Quiet
<1>11. QED
  BY <1>4, <1>5, <1>6, <1>7, <1>8, <1>9, <1>10
     DEF Step, RemoveMember, UpdateRole

\* A step of a handler that writes the table of members.
LEMMA WriteTyped ==
    ASSUME TypedInv, NEW h \in Handlers, Step(h), ~UNCHANGED <<member, joined>>,
           InviteInv'
    PROVE  TypedInv'
<1>1. Delete(h) \/ SaveMember(h) \/ DeleteMember(h)
  BY DEF Step, Rename, SaveProject, AskDelete, InviteMember, Invite,
         RemoveMember, UpdateRole, FindMember, CheckLastAdmin, IncrMemberCount
<1>2. /\ TablesOK /\ ColumnsOK /\ Started /\ 1 .. joined \subseteq MemberIds
      /\ joined' = joined
  BY <1>1, TypedParts, BoundsAssumption
     DEF TypedInv, Quiet, Delete, SaveMember, DeleteMember, MemberIds, TablesOK
<1>3. ColumnsOK'
  BY <1>1, <1>2 DEF ColumnsOK, Delete, SaveMember, DeleteMember
<1>4. Quiet'
  BY <1>1, <1>2 DEF Quiet, Started, Delete, SaveMember, DeleteMember
<1>5. CASE Delete(h)
  <2>1. /\ member' = [i \in MemberIds |-> None] /\ Members' = {}
        /\ Goto(h, "idle", NoJob)
    BY <1>5 DEF Delete, Members, Done
  <2>2. TablesOK'
    BY <1>2, <2>1 DEF TablesOK
  <2>3. ReadInv'
    <3>1. /\ at'[h] = "idle"
          /\ \A g \in Handlers \ {h} : at'[g] = at[g] /\ job'[g] = job[g]
      BY <2>1 DEF TypedInv, InviteInv, Goto
    <3>2. \A i \in 1 .. joined : member'[i] = None
      BY <1>2, <2>1
    <3>3. QED
      BY <1>2, <3>1, <3>2 DEF TypedInv, ReadInv, Reading
  <2>4. QED
    BY <1>3, <1>4, <2>2, <2>3, TypedParts DEF TypedInv
<1>6. CASE SaveMember(h) \/ DeleteMember(h)
  <2>1. /\ at[h] = "checked" /\ job[h].id \in 1 .. joined
        /\ job[h].row \in Rows /\ job[h].role \in Roles \cup {None}
        /\ member[job[h].id] # None => member[job[h].id].user = job[h].row.user
        /\ \A g \in Reading : job[g].id = job[h].id =>
              job[g].row.user = job[h].row.user
    BY <1>6 DEF SaveMember, DeleteMember, TypedInv, ReadInv, Reading
  <2>2. \E p \in {"idle", "deleted"} : \E j : Goto(h, p, j)
    BY <1>6 DEF SaveMember, DeleteMember, Done
  <2>3. CASE DeleteMember(h)
    <3>1. member' = [member EXCEPT ![job[h].id] = None]
      BY <2>3 DEF DeleteMember
    <3>2. TablesOK' /\ ReadInv'
      BY <1>2, <2>1, <2>2, <3>1, PutRow
    <3>3. QED
      BY <1>3, <1>4, <3>2, TypedParts DEF TypedInv
  <2>4. CASE SaveMember(h)
    <3> DEFINE row == [user |-> job[h].row.user, role |-> job[h].role]
    <3>1. /\ member' = [member EXCEPT ![job[h].id] = row]
          /\ \/ member[job[h].id] # None
             \/ FindByProjectAndUser(job[h].row.user) = {}
          /\ job[h].role \in Roles
      BY <1>2, <2>1, <2>4 DEF SaveMember
    <3>2. row \in Rows /\ row.user = job[h].row.user
      BY <2>1, <3>1 DEF Rows
    <3> HIDE DEF row
    <3>3. \A k \in Members : member[k].user = row.user => k = job[h].id
      <4>1. CASE member[job[h].id] # None
        BY <1>2, <2>1, <3>2, <4>1 DEF TablesOK, Members
      <4>2. CASE FindByProjectAndUser(job[h].row.user) = {}
        BY <3>2, <4>2 DEF FindByProjectAndUser
      <4>3. QED
        BY <3>1, <4>1, <4>2
    <3>4. \A g \in Reading : job[g].id = job[h].id => job[g].row.user = row.user
      BY <2>1, <3>2
    <3>5. TablesOK' /\ ReadInv'
      BY <1>2, <2>1, <2>2, <3>1, <3>2, <3>3, <3>4, PutRow
    <3>6. QED
      BY <1>3, <1>4, <3>5, TypedParts DEF TypedInv
  <2>5. QED
    BY <1>6, <2>3, <2>4
<1>7. QED
  BY <1>1, <1>5, <1>6

\* The creation of the project.
LEMMA CreateTyped ==
    ASSUME TypedInv, CreateProject \/ CreateAdmin, InviteInv'
    PROVE  TypedInv'
<1>1. TablesOK /\ ColumnsOK
  BY TypedParts
<1>2. ColumnsOK'
  BY <1>1 DEF ColumnsOK, CreateProject, CreateAdmin
<1>3. joined = 0 /\ Members = {} /\ \A h \in Handlers : at'[h] = "idle"
  <2>1. joined = 0 /\ \A h \in Handlers : at'[h] = "idle"
    BY DEF TypedInv, Quiet, Started, CreateProject, CreateAdmin
  <2>2. QED
    BY <1>1, <2>1 DEF TablesOK, Members, MemberIds
<1>4. ReadInv'
  BY <1>3 DEF ReadInv, Reading
<1>5. Quiet' /\ TablesOK'
  <2>1. CASE CreateProject
    BY <1>1, <2>1 DEF TypedInv, Quiet, Started, CreateProject, TablesOK, Members
  <2>2. CASE CreateAdmin
    <3>1. 1 \in MemberIds /\ [user |-> Creator, role |-> "admin"] \in Rows
      BY BoundsAssumption, UsersAssumption, RolesAssumption DEF MemberIds, Rows
    <3>2. member' \in [MemberIds -> Rows \cup {None}]
      BY <1>1, <2>2, <3>1 DEF CreateAdmin, TablesOK
    <3>3. Members' \subseteq {1}
      BY <1>1, <1>3, <2>2, <3>1 DEF CreateAdmin, TablesOK, Members
    <3>4. joined' = 1 /\ joined' \in 0 .. MaxMembers
      BY <2>2, BoundsAssumption DEF CreateAdmin
    <3>5. TablesOK'
      BY <3>2, <3>3, <3>4 DEF TablesOK
    <3>6. QED
      BY <2>2, <3>5 DEF Quiet, Started, CreateAdmin
  <2>3. QED
    BY <2>1, <2>2
<1>6. QED
  BY <1>2, <1>4, <1>5, TypedParts DEF TypedInv

\* The inductive invariant of the types holds in every reachable state.
LEMMA TypedAlways == Spec => []TypedInv
<1>1. Init => TypedInv
  <2> SUFFICES ASSUME Init PROVE TypedInv
    OBVIOUS
  <2>1. Members = {}
    BY DEF Init, Members
  <2>2. InviteInv /\ Quiet /\ ReadInv
    BY DEF Init, InviteInv, Quiet, ReadInv, Reading, Places
  <2>3. TablesOK
    BY <2>1, BoundsAssumption DEF Init, TablesOK
  <2>4. ColumnsOK
    <3>1. errors \in 0 .. MaxErrors
      BY BoundsAssumption DEF Init
    <3>2. count \in Int /\ cached = None /\ miscounted = FALSE /\ project = "absent"
      BY DEF Init
    <3>3. QED
      BY <3>1, <3>2 DEF ColumnsOK
  <2>5. QED
    BY <2>2, <2>3, <2>4, TypedParts DEF TypedInv
<1>2. TypedInv /\ InviteInv' /\ [Next]_vars => TypedInv'
  <2> SUFFICES ASSUME TypedInv, InviteInv', [Next]_vars PROVE TypedInv'
    OBVIOUS
  <2>1. CASE UNCHANGED vars \/ Expire
    <3>1. ColumnsOK' /\ TablesOK'
      BY <2>1, TypedParts DEF ColumnsOK, TablesOK, Members, vars, Expire
    <3>2. Quiet' /\ ReadInv'
      BY <2>1 DEF TypedInv, Quiet, Started, ReadInv, Reading, vars, Expire
    <3>3. QED
      BY <3>1, <3>2, TypedParts DEF TypedInv
  <2>2. CASE CreateProject \/ CreateAdmin
    BY <2>2, CreateTyped
  <2>3. ASSUME NEW h \in Handlers, Step(h) PROVE TypedInv'
    BY <2>3, ReadTyped, WriteTyped
  <2>4. ASSUME NEW i \in InviteIds, Decide(i) PROVE TypedInv'
    BY <2>4, DecideTyped
  <2>5. QED
    BY <2>1, <2>2, <2>3, <2>4 DEF Next
<1>3. QED
  BY <1>1, <1>2, InvitesTyped, PTL DEF Spec

\* Every state is typed, whatever requests overlap: no user is twice a member,
\* and a role change that saves its row again gives it to the user it was read
\* for.
THEOREM TypeCorrect == Spec => []TypeOK
<1>1. TypedInv => TypeOK
  BY DEF TypedInv
<1>2. QED
  BY <1>1, TypedAlways, PTL

-----------------------------------------------------------------------------
\* The tables are finite.
LEMMA MembersFinite == IsFiniteSet(Members)
<1>1. IsFiniteSet(1 .. MaxMembers)
  BY BoundsAssumption, FS_Interval
<1>2. QED
  BY <1>1, FS_Subset DEF Members, MemberIds

\* A step that leaves members, count and removals as they are.
LEMMA SameCount ==
    ASSUME CountInv, Removing' = Removing, Members' = Members,
           project' = project \/ project' \notin {"rowOnly", "open"},
           \/ count' = count
           \/ miscounted' /\ project # "rowOnly",
           miscounted => miscounted'
    PROVE  CountInv'
<1>1. Cardinality(Removing') = Cardinality(Removing)
  OBVIOUS
<1>2. IsFiniteSet(Removing')
  BY DEF CountInv
<1>3. project' = "rowOnly" => count' = 1
  BY DEF CountInv
<1>4. CountRight'
  BY <1>1 DEF CountInv, CountRight, Removing
<1>5. QED
  BY <1>2, <1>3, <1>4 DEF CountInv

\* Goto from a place to another, neither of them "deleted".
LEMMA GotoRemoving ==
    ASSUME TypedInv, NEW h \in Handlers, NEW p, NEW j, Goto(h, p, j),
           at[h] # "deleted", p # "deleted"
    PROVE  Removing' = Removing
<1>1. at'[h] = p /\ \A g \in Handlers \ {h} : at'[g] = at[g]
  BY DEF TypedInv, InviteInv, Goto
<1>2. QED
  BY <1>1 DEF Removing

\* The row is deleted: a member less, a removal more.
LEMMA DeleteCounts ==
    ASSUME TypedInv, CountInv, NEW h \in Handlers, DeleteMember(h)
    PROVE  CountInv'
<1>1. at'[h] = "deleted" /\ \A g \in Handlers \ {h} : at'[g] = at[g]
  BY DEF TypedInv, InviteInv, DeleteMember, Goto
<1>2. Removing' = Removing \cup {h} /\ h \notin Removing
  BY <1>1 DEF Removing, DeleteMember
<1>3. /\ IsFiniteSet(Removing')
      /\ Cardinality(Removing') = Cardinality(Removing) + 1
  BY <1>2, FS_AddElement DEF CountInv
<1>4. project # "rowOnly" /\ UNCHANGED <<project, count>>
  BY DEF TypedInv, Quiet, Started, DeleteMember
<1>5. CASE miscounted' \/ project # "open"
  BY <1>3, <1>4, <1>5 DEF CountInv, CountRight
<1>6. CASE ~miscounted' /\ project = "open"
  <2> DEFINE i == job[h].id
  <2>1. ~miscounted /\ member[i] # None /\ member' = [member EXCEPT ![i] = None]
    BY <1>6 DEF DeleteMember
  <2>2. i \in MemberIds /\ member \in [MemberIds -> Rows \cup {None}]
    BY BoundsAssumption DEF DeleteMember, TypedInv, TypeOK, ReadInv, Reading, MemberIds
  <2> HIDE DEF i
  <2>3. Members' = Members \ {i} /\ i \in Members
    BY <2>1, <2>2 DEF Members
  <2>4. /\ Cardinality(Members') = Cardinality(Members) - 1
        /\ Cardinality(Members) \in Nat /\ Cardinality(Removing) \in Nat
    BY <2>3, MembersFinite, FS_RemoveElement, FS_CardinalityType DEF CountInv
  <2>5. count = Cardinality(Members) + Cardinality(Removing)
    BY <1>6, <2>1 DEF CountInv, CountRight, Removing
  <2>6. count' = Cardinality(Members') + Cardinality(Removing')
    BY <1>3, <1>4, <2>4, <2>5
  <2>7. QED
    BY <1>3, <1>4, <2>6 DEF CountInv, CountRight, Removing
<1>7. QED
  BY <1>5, <1>6

\* The count is decremented, or the removal ends without that.
LEMMA DecrementCounts ==
    ASSUME TypedInv, CountInv, NEW h \in Handlers, IncrMemberCount(h)
    PROVE  CountInv'
<1>1. at'[h] = "idle" /\ \A g \in Handlers \ {h} : at'[g] = at[g]
  BY DEF TypedInv, InviteInv, IncrMemberCount, Done, Goto
<1>2. Removing' = Removing \ {h} /\ h \in Removing
  BY <1>1 DEF Removing, IncrMemberCount
<1>3. /\ IsFiniteSet(Removing')
      /\ Cardinality(Removing') = Cardinality(Removing) - 1
      /\ Cardinality(Removing) \in Nat
  BY <1>2, FS_RemoveElement, FS_CardinalityType DEF CountInv
<1>4. project # "rowOnly" /\ UNCHANGED <<project, member>>
  BY DEF TypedInv, Quiet, Started, IncrMemberCount
<1>5. CASE miscounted' \/ project # "open"
  BY <1>3, <1>4, <1>5 DEF CountInv, CountRight
<1>6. CASE ~miscounted' /\ project = "open"
  <2>1. ~miscounted /\ count' = count - 1 /\ Members' = Members
    BY <1>4, <1>6 DEF IncrMemberCount, Members
  <2>2. count = Cardinality(Members) + Cardinality(Removing)
    BY <1>6, <2>1 DEF CountInv, CountRight, Removing
  <2>3. Cardinality(Members) \in Nat
    BY MembersFinite, FS_CardinalityType
  <2>4. count' = Cardinality(Members') + Cardinality(Removing')
    BY <1>3, <2>1, <2>2, <2>3
  <2>5. QED
    BY <1>3, <1>4, <2>4 DEF CountInv, CountRight, Removing
<1>7. QED
  BY <1>5, <1>6

\* An acceptance counts the member it adds, and counts nobody it does not.
LEMMA AcceptCounts ==
    ASSUME TypedInv, CountInv, NEW i \in InviteIds, AcceptInvitation(i)
    PROVE  CountInv'
<1>1. UNCHANGED <<project, at, miscounted>> /\ Removing' = Removing /\ Started
  BY DEF AcceptInvitation, Removing, TypedInv, Quiet, Started, Open
<1>2. CASE UNCHANGED <<count, member, joined>>
  BY <1>1, <1>2, SameCount DEF Members
<1>3. CASE ~UNCHANGED <<count, member, joined>>
  <2> DEFINE n == joined + 1
             row == [user |-> invite[i].user, role |-> invite[i].role]
  <2>1. /\ joined < MaxMembers /\ count' = count + 1
        /\ member' = [member EXCEPT ![n] = row]
    BY <1>3 DEF AcceptInvitation
  <2>2. /\ joined \in 0 .. MaxMembers
        /\ member \in [MemberIds -> Rows \cup {None}]
        /\ \A k \in Members : k <= joined
    BY DEF TypedInv, TypeOK
  <2>3. invite[i] \in InviteRows
    BY DEF AcceptInvitation, Open, TypedInv, InviteInv
  <2>4. n \in MemberIds /\ row # None /\ n \notin Members
    BY <2>1, <2>2, <2>3, BoundsAssumption, NoneAssumption
       DEF MemberIds, InviteRows, Members
  <2> HIDE DEF n, row
  <2>5. Members' = Members \cup {n}
    BY <2>1, <2>2, <2>4 DEF Members
  <2>6. /\ Cardinality(Members') = Cardinality(Members) + 1
        /\ Cardinality(Members) \in Nat /\ Cardinality(Removing) \in Nat
    BY <2>4, <2>5, MembersFinite, FS_AddElement, FS_CardinalityType DEF CountInv
  <2>7. CountRight'
    BY <1>1, <2>1, <2>6 DEF CountInv, CountRight, Removing
  <2>8. QED
    BY <1>1, <2>7 DEF CountInv, Started
<1>4. QED
  BY <1>2, <1>3

\* A handler's other steps.
LEMMA StepCounts ==
    ASSUME TypedInv, CountInv, NEW h \in Handlers, Step(h)
    PROVE  CountInv'
<1>1. CASE SaveProject(h)
  <2>1. Removing' = Removing /\ Members' = Members
    BY <1>1, GotoRemoving DEF SaveProject, Done, Members
  <2>2. project # "rowOnly"
    BY <1>1 DEF SaveProject, TypedInv, Quiet, Started
  <2>3. QED
    BY <1>1, <2>1, <2>2, SameCount DEF SaveProject, TypedInv, TypeOK
<1>2. CASE Delete(h)
  <2>1. Removing' = Removing /\ project' = "deleted"
    BY <1>2, GotoRemoving DEF Delete, Done
  <2>2. QED
    BY <2>1 DEF CountInv, CountRight
<1>3. CASE SaveMember(h)
  <2>1. Removing' = Removing /\ UNCHANGED <<project, count>>
    BY <1>3, GotoRemoving DEF SaveMember, Done
  <2>2. CASE miscounted' \/ project # "open"
    BY <2>1, <2>2 DEF CountInv, CountRight
  <2>3. CASE ~miscounted' /\ project = "open"
    <3> DEFINE i == job[h].id
               row == [user |-> job[h].row.user, role |-> job[h].role]
    <3>1. member' = member \/ (member[i] # None /\ member' = [member EXCEPT ![i] = row])
      BY <1>3, <2>3 DEF SaveMember
    <3>2. /\ i \in MemberIds /\ member \in [MemberIds -> Rows \cup {None}]
          /\ row \in Rows
      BY <1>3, BoundsAssumption
         DEF SaveMember, TypedInv, TypeOK, ReadInv, Reading, MemberIds, Rows
    <3>3. row # None
      BY <3>2, NoneAssumption DEF Rows
    <3> HIDE DEF i, row
    <3>4. Members' = Members
      BY <3>1, <3>2, <3>3 DEF Members
    <3>5. ~miscounted
      BY <1>3, <2>3 DEF SaveMember
    <3>6. QED
      BY <2>1, <2>3, <3>4, <3>5, SameCount
  <2>4. QED
    BY <2>2, <2>3
<1>4. CASE DeleteMember(h)
  BY <1>4, DeleteCounts
<1>5. CASE IncrMemberCount(h)
  BY <1>5, DecrementCounts
<1>6. ASSUME NEW i, NEW r, FindMember(h, i, r)
      PROVE  CountInv'
  <2>1. Removing' = Removing
    BY <1>6, GotoRemoving DEF FindMember
  <2>2. QED
    BY <1>6, <2>1, SameCount DEF FindMember, Members
<1>7. ASSUME NEW u, NEW r, InviteMember(h, u, r)
      PROVE  CountInv'
  <2>1. Removing' = Removing
    BY <1>7, GotoRemoving DEF InviteMember
  <2>2. QED
    BY <1>7, <2>1, SameCount DEF InviteMember, Members
<1>8. CASE Rename(h) \/ AskDelete(h) \/ Invite(h) \/ CheckLastAdmin(h)
  <2>1. /\ \E p \in {"idle", "renaming", "dropping", "checked"} : \E j : Goto(h, p, j)
        /\ at[h] # "deleted"
        /\ UNCHANGED <<project, count, member, miscounted>>
    BY <1>8 DEF Rename, AskDelete, Invite, CheckLastAdmin, Done
  <2>2. Removing' = Removing
    BY <2>1, GotoRemoving
  <2>3. QED
    BY <2>1, <2>2, SameCount DEF Members
<1>9. QED
  BY <1>1, <1>2, <1>3, <1>4, <1>5, <1>6, <1>7, <1>8
     DEF Step, RemoveMember, UpdateRole

\* member_count counts the members and the removals under way, for any number
\* of requests that overlap in any way, until one of the three things the code
\* ignores happens.
THEOREM CountRightCorrect == Spec => []CountRight
<1>1. Init => CountInv
  <2> SUFFICES ASSUME Init PROVE CountInv
    OBVIOUS
  <2>1. Removing = {}
    BY DEF Init, Removing
  <2>2. QED
    BY <2>1, FS_EmptySet DEF Init, CountInv, CountRight
<1>2. TypedInv /\ CountInv /\ [Next]_vars => CountInv'
  <2> SUFFICES ASSUME TypedInv, CountInv, [Next]_vars PROVE CountInv'
    OBVIOUS
  <2>1. CASE UNCHANGED vars \/ Expire
    BY <2>1, SameCount DEF vars, Expire, Members, Removing
  <2>2. CASE CreateProject
    BY <2>2 DEF CreateProject, CountInv, CountRight, Removing
  <2>3. CASE CreateAdmin
    <3>1. \A h \in Handlers : at[h] = "idle" /\ at'[h] = "idle"
      BY <2>3 DEF CreateAdmin, TypedInv, Quiet, Started
    <3>2. Removing' = {}
      BY <3>1 DEF Removing
    <3>3. Members = {} /\ 1 \in MemberIds
      BY <2>3, BoundsAssumption
         DEF CreateAdmin, TypedInv, TypeOK, Quiet, Started, Members, MemberIds
    <3>4. Members' = {1}
      <4>1. [user |-> Creator, role |-> "admin"] # None
        BY UsersAssumption, RolesAssumption, NoneAssumption
      <4>2. member \in [MemberIds -> Rows \cup {None}]
        BY DEF TypedInv, TypeOK
      <4>3. QED
        BY <2>3, <3>3, <4>1, <4>2 DEF CreateAdmin, Members
    <3>5. Cardinality(Members') = 1 /\ Cardinality(Removing') = 0
      BY <3>2, <3>4, FS_EmptySet, FS_Singleton
    <3>6. count' = 1
      BY <2>3 DEF CreateAdmin, CountInv
    <3>7. QED
      BY <2>3, <3>2, <3>5, <3>6, FS_EmptySet
         DEF CreateAdmin, CountInv, CountRight, Removing
  <2>4. ASSUME NEW h \in Handlers, Step(h) PROVE CountInv'
    BY <2>4, StepCounts
  <2>5. ASSUME NEW i \in InviteIds, Decide(i) PROVE CountInv'
    <3>1. CASE AcceptInvitation(i)
      BY <3>1, AcceptCounts
    <3>2. CASE TimeOut(i) \/ RejectInvitation(i)
      BY <3>2, SameCount DEF TimeOut, RejectInvitation, Members, Removing
    <3>3. QED
      BY <2>5, <3>1, <3>2 DEF Decide, RevokeInvitation
  <2>6. QED
    BY <2>1, <2>2, <2>3, <2>4, <2>5 DEF Next
<1>3. CountInv => CountRight
  BY DEF CountInv
<1>4. QED
  BY <1>1, <1>2, <1>3, TypedAlways, PTL DEF Spec
=============================================================================
