----------------------------- MODULE Membership -----------------------------
(***************************************************************************)
(* The members of one project and the invitations to it: MemberService,    *)
(* its repository, and the project service where it touches them (creation *)
(* of a project, its deletion, and the changes that save the project's row *)
(* whole, its member_count included).                                      *)
(*                                                                         *)
(* A request is a handler that runs in steps, one per statement it sends   *)
(* to the database; what a handler does inside a transaction, with the     *)
(* invitation's row locked, is one step.  A handler that refuses, or whose *)
(* transaction is rolled back, changes nothing and is left out.  An e-mail *)
(* address is the user it belongs to.  Notifications and audit rows are    *)
(* left out, and the caches of project lists.  Who makes a request is left *)
(* out too: the routes wrap these handlers in withAdminRole, which returns *)
(* the last handler of a chain, and that is the handler itself.            *)
(***************************************************************************)
EXTENDS Integers, FiniteSets

CONSTANTS
    Users,        \* the users who can be members
    Creator,      \* the user who creates the project
    Roles,        \* the roles in use, "admin" among them
    Handlers,     \* the requests that can be in progress at once
    MaxMembers,   \* bound: member rows ever inserted
    MaxInvites,   \* bound: invitation rows ever inserted
    MaxErrors,    \* bound: failed updates of member_count
    OneAtATime,   \* TRUE: role changes, removals and deletion never overlap
    None

ASSUME UsersAssumption == IsFiniteSet(Users) /\ Creator \in Users
ASSUME RolesAssumption == "admin" \in Roles /\ None \notin Roles
ASSUME BoundsAssumption ==
    MaxMembers \in Nat \ {0} /\ MaxInvites \in Nat /\ MaxErrors \in Nat
ASSUME NoneAssumption == None \notin [user : Users, role : Roles]

VARIABLES
    project,    \* the row of the project
    count,      \* its column member_count
    cached,     \* member_count in the cached project detail, or None
    member,     \* the table project_members: id -> row, or None
    joined,     \* how many member ids have been given out
    invite,     \* the table invitations: id -> row, or None
    at,         \* where each handler is
    job,        \* what each handler has read and will write
    errors,     \* failed updates of member_count so far
    miscounted  \* member_count was set without regard to the rows

vars == <<project, count, cached, member, joined, invite, at, job, errors,
          miscounted>>

MemberIds == 1 .. MaxMembers
InviteIds == 1 .. MaxInvites
Rows == [user : Users, role : Roles]
InviteStatuses == {"pending", "accepted", "rejected", "expired"}
InviteRows ==
    [user : Users, role : Roles, status : InviteStatuses, late : BOOLEAN]
Places == {"idle", "inviting", "found", "checked", "deleted",
           "renaming", "dropping"}

NoJob == [id |-> None, user |-> None, role |-> None, row |-> None, saw |-> None]

Exists == project \in {"open", "revived"}

(***************************************************************************)
(* Reads.                                                                  *)
(***************************************************************************)
Members == {i \in MemberIds : member[i] # None}

FindByProjectAndUser(u) == {i \in Members : member[i].user = u}

Admins == {i \in Members : member[i].role = "admin"}

CountAdmins == Cardinality(Admins)

\* The project comes from the detail cache, which a miss fills.  Changes of
\* member_count by the member service do not invalidate the entry.
FindByID == IF cached # None THEN cached ELSE count

Reads == cached' = FindByID

Goto(h, place, what) == /\ at' = [at EXCEPT ![h] = place]
                        /\ job' = [job EXCEPT ![h] = what]

Done(h) == Goto(h, "idle", NoJob)

-----------------------------------------------------------------------------
(***************************************************************************)
(* The project.                                                            *)
(***************************************************************************)
Init == /\ project = "absent" /\ count = 0 /\ cached = None
        /\ member = [i \in MemberIds |-> None] /\ joined = 0
        /\ invite = [i \in InviteIds |-> None]
        /\ at = [h \in Handlers |-> "idle"]
        /\ job = [h \in Handlers |-> NoJob]
        /\ errors = 0 /\ miscounted = FALSE

\* Create writes the project's row, its member_count already 1 ...
CreateProject ==
    /\ project = "absent"
    /\ project' = "rowOnly" /\ count' = 1
    /\ UNCHANGED <<cached, member, joined, invite, at, job, errors, miscounted>>

\* ... and then the creator's row as its administrator.  No transaction joins
\* the two: after an error or a crash the project is there with no member,
\* and the model does not follow it further.
CreateAdmin ==
    /\ project = "rowOnly"
    /\ project' = "open" /\ joined' = 1
    /\ member' = [member EXCEPT ![1] = [user |-> Creator, role |-> "admin"]]
    /\ UNCHANGED <<count, cached, invite, at, job, errors, miscounted>>

\* The entry of the detail cache expires.
Expire == /\ cached # None
          /\ cached' = None
          /\ UNCHANGED <<project, count, member, joined, invite, at, job,
                         errors, miscounted>>

\* Rename and Update read the project, from the cache if it is there ...
Rename(h) ==
    /\ at[h] = "idle" /\ Exists
    /\ Goto(h, "renaming", [NoJob EXCEPT !.saw = FindByID]) /\ Reads
    /\ UNCHANGED <<project, count, member, joined, invite, errors, miscounted>>

\* ... and save the whole row: the count they read replaces the stored one,
\* and a row deleted in between is inserted again, with no member.
SaveProject(h) ==
    /\ at[h] = "renaming"
    /\ project' = IF project = "deleted" THEN "revived" ELSE project
    /\ count' = job[h].saw /\ cached' = None
    /\ miscounted' = (miscounted \/ job[h].saw # count)
    /\ Done(h)
    /\ UNCHANGED <<member, joined, invite, errors>>

\* Role changes, removals and deletion of one project; unless OneAtATime is
\* assumed, nothing in the code keeps them from overlapping.
Alone == OneAtATime => \A h \in Handlers :
             at[h] \notin {"found", "checked", "deleted", "dropping"}

\* Delete lists the members ...
AskDelete(h) ==
    /\ at[h] = "idle" /\ Alone /\ Exists
    /\ Goto(h, "dropping", NoJob)
    /\ UNCHANGED <<project, count, cached, member, joined, invite, errors,
                   miscounted>>

\* ... and deletes the project and what belongs to it in one transaction.
Delete(h) ==
    /\ at[h] = "dropping"
    /\ project' = "deleted" /\ cached' = None
    /\ member' = [i \in MemberIds |-> None]
    /\ invite' = [i \in InviteIds |-> None]
    /\ Done(h)
    /\ UNCHANGED <<count, joined, errors, miscounted>>

-----------------------------------------------------------------------------
(***************************************************************************)
(* Invitations.  The lock on the invitation's row, and the unique index on *)
(* the pending ones, make each transaction a step.                         *)
(***************************************************************************)
PendingFor(u) ==
    {i \in InviteIds : invite[i] # None /\ invite[i].user = u
                                        /\ invite[i].status = "pending"}

Unused == {i \in InviteIds : invite[i] = None}

SetStatus(i, status) == invite' = [invite EXCEPT ![i].status = status]

\* InviteMember looks first whether the user is a member already ...
InviteMember(h, u, r) ==
    /\ at[h] = "idle" /\ Exists
    /\ FindByProjectAndUser(u) = {}
    /\ Goto(h, "inviting", [NoJob EXCEPT !.user = u, !.role = r]) /\ Reads
    /\ UNCHANGED <<project, count, member, joined, invite, errors, miscounted>>

\* ... and then renews the pending invitation or creates one, in a transaction.
Invite(h) ==
    LET u == job[h].user
        row == [user |-> u, role |-> job[h].role, status |-> "pending",
                late |-> FALSE]
    IN  /\ at[h] = "inviting"
        /\ IF ~Exists THEN UNCHANGED invite
           ELSE \/ \E i \in PendingFor(u) : invite' = [invite EXCEPT ![i] = row]
                \/ /\ PendingFor(u) = {}
                   /\ \E i \in Unused : /\ \A j \in Unused : i <= j
                                        /\ invite' = [invite EXCEPT ![i] = row]
        /\ Done(h)
        /\ UNCHANGED <<project, count, cached, member, joined, errors,
                       miscounted>>

\* The 72 hours of an invitation pass.
TimeOut(i) == /\ invite[i] # None /\ invite[i].status = "pending"
              /\ ~invite[i].late
              /\ invite' = [invite EXCEPT ![i].late = TRUE]
              /\ UNCHANGED <<project, count, cached, member, joined, at, job,
                             errors, miscounted>>

\* Mutant: an invitation that has been decided is taken again.
Unexpired(i) == invite[i] # None /\ ~invite[i].late

\* An invitation a decision can still be made about.  One found too late is
\* marked expired and an error returned, which rolls the mark back.
Open(i) == invite[i] # None /\ invite[i].status = "pending" /\ ~invite[i].late

\* Mutant: the user is inserted whether or not he is a member.
AcceptUnchecked(i) ==
    /\ Open(i) /\ SetStatus(i, "accepted") /\ joined < MaxMembers
    /\ joined' = joined + 1 /\ count' = count + 1
    /\ member' = [member EXCEPT ![joined + 1] =
          [user |-> invite[i].user, role |-> invite[i].role]]
    /\ UNCHANGED <<project, cached, at, job, errors, miscounted>>

\* Mutant: a user who is a member already is counted once more.
AcceptCounted(i) ==
    /\ Open(i) /\ SetStatus(i, "accepted") /\ count' = count + 1
    /\ IF FindByProjectAndUser(invite[i].user) # {}
       THEN UNCHANGED <<member, joined>>
       ELSE /\ joined < MaxMembers /\ joined' = joined + 1
            /\ member' = [member EXCEPT ![joined + 1] =
                  [user |-> invite[i].user, role |-> invite[i].role]]
    /\ UNCHANGED <<project, cached, at, job, errors, miscounted>>

\* The invited user accepts: the member, the count and the invitation change
\* together.  A user who is a member already only gets the invitation closed,
\* and an accepted invitation answers with the member there is.
AcceptInvitation(i) ==
    /\ Open(i) /\ SetStatus(i, "accepted")
    /\ IF FindByProjectAndUser(invite[i].user) # {}
       THEN UNCHANGED <<count, member, joined>>
       ELSE /\ joined < MaxMembers
            /\ joined' = joined + 1 /\ count' = count + 1
            /\ member' = [member EXCEPT ![joined + 1] =
                  [user |-> invite[i].user, role |-> invite[i].role]]
    /\ UNCHANGED <<project, cached, at, job, errors, miscounted>>

\* The invited user rejects the invitation ...
RejectInvitation(i) ==
    /\ Open(i) /\ SetStatus(i, "rejected")
    /\ UNCHANGED <<project, count, cached, member, joined, at, job, errors,
                   miscounted>>


\* ... or it is revoked, which ends it in the same status.
RevokeInvitation(i) == RejectInvitation(i)

-----------------------------------------------------------------------------
(***************************************************************************)
(* Role changes and removals: the member's row is read, the administrators *)
(* are counted, and the row is written, with no transaction around them.   *)
(***************************************************************************)
FindMember(h, i, r) ==
    /\ at[h] = "idle" /\ Alone /\ Exists /\ member[i] # None
    /\ Goto(h, "found", [NoJob EXCEPT !.id = i, !.role = r, !.row = member[i]])
    /\ Reads
    /\ UNCHANGED <<project, count, member, joined, invite, errors, miscounted>>

UpdateRole(h, i, r) == r \in Roles /\ FindMember(h, i, r)

RemoveMember(h, i) == FindMember(h, i, None)

\* Mutant: only removals are checked.
Removes(j) == j.row.role = "admin" /\ j.role = None

\* The request takes an administrator from the project; None is a removal.
Demotes(j) == j.row.role = "admin" /\ j.role # "admin"

CheckLastAdmin(h) ==
    /\ at[h] = "found"
    /\ IF Demotes(job[h]) /\ CountAdmins <= 1 THEN Done(h)
       ELSE Goto(h, "checked", job[h])
    /\ UNCHANGED <<project, count, cached, member, joined, invite, errors,
                   miscounted>>

\* Save updates the member's row, or inserts it again when it has gone: unless
\* the project has gone too, or the user has another row by now.
SaveMember(h) ==
    LET j == job[h]
        row == [user |-> j.row.user, role |-> j.role]
        kept == member[j.id] # None \/ (/\ Exists
                                        /\ FindByProjectAndUser(j.row.user) = {})
    IN  /\ at[h] = "checked" /\ j.role # None
        /\ member' = IF kept THEN [member EXCEPT ![j.id] = row] ELSE member
        /\ miscounted' = (miscounted \/ (kept /\ member[j.id] = None))
        /\ Done(h)
        /\ UNCHANGED <<project, count, cached, joined, invite, errors>>

\* RemoveMember deletes the row, whether or not it is still there ...
DeleteMember(h) ==
    /\ at[h] = "checked" /\ job[h].role = None
    /\ member' = [member EXCEPT ![job[h].id] = None]
    /\ miscounted' = (miscounted \/ member[job[h].id] = None)
    /\ Goto(h, "deleted", job[h])
    /\ UNCHANGED <<project, count, cached, joined, invite, errors>>

\* ... and then decrements member_count; an error of that is ignored.
IncrMemberCount(h) ==
    /\ at[h] = "deleted"
    /\ \/ count' = count - 1 /\ UNCHANGED <<errors, miscounted>>
       \/ /\ errors < MaxErrors /\ errors' = errors + 1
          /\ miscounted' = TRUE /\ UNCHANGED count
    /\ Done(h)
    /\ UNCHANGED <<project, cached, member, joined, invite>>

-----------------------------------------------------------------------------
Step(h) == \/ Rename(h) \/ SaveProject(h)
           \/ AskDelete(h) \/ Delete(h)
           \/ \E u \in Users, r \in Roles : InviteMember(h, u, r)
           \/ Invite(h)
           \/ \E i \in 1 .. joined : \/ RemoveMember(h, i)
                                     \/ \E r \in Roles : UpdateRole(h, i, r)
           \/ CheckLastAdmin(h)
           \/ SaveMember(h) \/ DeleteMember(h) \/ IncrMemberCount(h)

Decide(i) == \/ TimeOut(i) \/ AcceptInvitation(i)
             \/ RejectInvitation(i) \/ RevokeInvitation(i)

Next == \/ CreateProject \/ CreateAdmin \/ Expire
        \/ \E h \in Handlers : Step(h)
        \/ \E i \in InviteIds : Decide(i)

Spec == Init /\ [][Next]_vars

-----------------------------------------------------------------------------
\* Type invariant: no row of a user appears twice among the members (the
\* unique key of project_members), and ids are given out in order.
TypeOK ==
    /\ project \in {"absent", "rowOnly", "open", "revived", "deleted"}
    /\ count \in Int /\ cached \in Int \cup {None}
    /\ joined \in 0 .. MaxMembers
    /\ member \in [MemberIds -> Rows \cup {None}]
    /\ \A i \in Members : i <= joined
    /\ \A i, j \in Members : member[i].user = member[j].user => i = j
    /\ invite \in [InviteIds -> InviteRows \cup {None}]
    /\ at \in [Handlers -> Places]
    /\ errors \in 0 .. MaxErrors /\ miscounted \in BOOLEAN

\* Once a project has its creator as administrator it keeps one, for as long as
\* it exists, whatever the role changes, removals, acceptances and renames:
\* the checks "降级最后一个 admin 前检查" and ErrCannotRemoveLastAdmin.
AdminKept == project = "open" => Admins # {}

\* member_count is the number of members, less the removals under way, until
\* something the code ignores makes it wrong: a failed update of the count, a
\* rename that wrote an old count back, two requests about one member.
CountRight ==
    project = "open" /\ ~miscounted =>
        count = Cardinality(Members)
                + Cardinality({h \in Handlers : at[h] = "deleted"})

\* Nobody becomes a member of a project that has its creator but by a pending
\* invitation addressed to him, in the role it gives, closed in the same step:
\* one that was revoked, rejected or used lets nobody in (again), and a role
\* change in flight does not bring a removed member back.
OnlyByInvitation ==
    [][project = "open" => \A i \in MemberIds :
          member[i] = None /\ member'[i] # None =>
              \E k \in InviteIds :
                  /\ invite[k] # None /\ ~invite[k].late
                  /\ invite[k].status = "pending"
                  /\ invite'[k].status = "accepted"
                  /\ member'[i] = [user |-> invite[k].user,
                                   role |-> invite[k].role]]_vars

=============================================================================
