---------------------------- MODULE AgentSafety ----------------------------
(***************************************************************************)
(* What the agent may call (agent/safety.go): the limits of a session and  *)
(* the rules that tell a model going round in circles, as operators on a   *)
(* record of what the session has called so far.  A call is a tool and its *)
(* arguments, which is its fingerprint.  The rules look at the last four   *)
(* calls, so the record keeps four of the sixteen the code keeps.  The     *)
(* gate-toggle rule has no operator: two settings of one gate that         *)
(* alternate are an ABAB pattern of mutations, which comes before it.      *)
(***************************************************************************)
EXTENDS Integers, Sequences

CONSTANTS
  MaxToolCalls,           \* calls that run, in a session
  ToolCallRateLimit,      \* calls of one kind, in a round
  MaxNodesPerSession,     \* nodes the server tools change, in a session
  EnableLoopSoftWarning   \* a repeated pattern is warned about before it is an error

ASSUME SafetyAssumption ==
  /\ MaxToolCalls \in Nat /\ ToolCallRateLimit \in Nat /\ MaxNodesPerSession \in Nat
  /\ EnableLoopSoftWarning \in BOOLEAN

Mutations == {"update", "delete", "batch"}
CallKinds == {"read", "validate", "mutation", "other"}

classifyToolKind(tool) ==
  CASE tool = "read" -> "read"
    [] tool \in {"validate", "check"} -> "validate"
    [] tool \in Mutations -> "mutation"
    [] OTHER -> "other"

maxLoopSoftWarningsPerKey == 2

ClearSession == [used |-> [k \in CallKinds |-> 0], history |-> <<>>, warned |-> <<>>, changed |-> 0]

BeginRound(s) == [s EXCEPT !.used = [k \in CallKinds |-> 0]]

-----------------------------------------------------------------------------
(* The rules on the last calls, in the order the code applies them.  A     *)
(* rule's key counts its warnings.  When they are used up, a hard rule is  *)
(* an error and a soft one lets the call pass to the next rule.            *)

Last(h, n) == SubSeq(h, Len(h) - n + 1, Len(h))

Alike(h, n) == Len(h) >= n /\ \A i \in 1..n : Last(h, n)[i] = h[Len(h)]

\* The last four calls alternate.
Alternates(h) == Len(h) >= 4 /\ \A i \in 1..2 : Last(h, 4)[i] = Last(h, 4)[i + 2]

LastKinds(h) == {classifyToolKind(Last(h, 4)[i].tool) : i \in 1..4}

\* isGenericABABLoop
IsABAB(h) == Alternates(h) /\ ~ LastKinds(h) \subseteq {"read", "validate"}

\* isReadValidateAlternatingLoop
IsReadValidate(h) == Alternates(h) /\ LastKinds(h) = {"read", "validate"}

\* buildReadValidateStreakWarning
IsStreak(h) == Len(h) >= 4 /\ LastKinds(h) \subseteq {"read", "validate"} /\ ~ Alike(h, 4)

Rules(h) ==
  LET Pattern(name, n) == <<name, IF Len(h) >= n THEN Last(h, n) ELSE <<>>>>
  IN  << [holds |-> EnableLoopSoftWarning /\ Alike(h, 2), hard |-> FALSE, key |-> Pattern("fp", 1)],
         [holds |-> EnableLoopSoftWarning /\ IsStreak(h), hard |-> FALSE, key |-> Pattern("read_streak", 4)],
         [holds |-> Alike(h, 3), hard |-> TRUE, key |-> Pattern("fp", 1)],
         [holds |-> IsABAB(h), hard |-> TRUE, key |-> Pattern("abab", 4)],
         [holds |-> IsReadValidate(h), hard |-> TRUE, key |-> Pattern("read_validate", 4)] >>

Warned(s, key) == IF key \in DOMAIN s.warned THEN s.warned[key] ELSE 0
Warns(s, rule) == EnableLoopSoftWarning /\ Warned(s, rule.key) < maxLoopSoftWarningsPerKey

Outcome(verdict, s) == [verdict |-> verdict, safety |-> s]

\* consumeLoopWarningToken, when there is a token left.
Consume(s, key) ==
  [s EXCEPT !.warned = [k \in DOMAIN @ \union {key} |-> IF k = key THEN Warned(s, key) + 1 ELSE @[k]]]

\* The first rule that holds and has something to say decides.
CheckLoops(s) ==
  LET rules == Rules(s.history)
      deciding == {i \in 1..Len(rules) : rules[i].holds /\ (rules[i].hard \/ Warns(s, rules[i]))}
      rule == rules[CHOOSE i \in deciding : \A j \in deciding : i <= j]
  IN  IF deciding = {} THEN Outcome("pass", s)
      ELSE IF Warns(s, rule) THEN Outcome("warning", Consume(s, rule.key))
      ELSE Outcome("stop", s)

\* CheckToolCallWithWarning, for a session in the given state with that many
\* calls run.  "stop" ends the run, "warning" and "inactive" skip the call.
CheckToolCall(s, call, count, state) ==
  LET kind == classifyToolKind(call.tool)
      history == Append(s.history, call)
      seen == [s EXCEPT !.used[kind] = IF ToolCallRateLimit = 0 THEN @ ELSE @ + 1,
                        !.history = IF Len(history) > 4 THEN Tail(history) ELSE history]
  IN  IF state \in {"cancelled", "done"} THEN Outcome("inactive", s)
      ELSE IF \/ MaxToolCalls > 0 /\ count >= MaxToolCalls
              \/ ToolCallRateLimit > 0 /\ s.used[kind] >= ToolCallRateLimit
      THEN Outcome("stop", s)
      ELSE CheckLoops(seen)

\* RecordMutation: after the change is stored, so the one that passes the limit is kept.
RecordMutation(s, changed) ==
  IF MaxNodesPerSession > 0 /\ s.changed + changed > MaxNodesPerSession
  THEN Outcome("stop", s)
  ELSE Outcome("pass", [s EXCEPT !.changed = IF MaxNodesPerSession = 0 THEN @ ELSE @ + changed])
=============================================================================
