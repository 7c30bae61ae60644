-------------------------- MODULE MCExecutionBridge --------------------------
\* ExecutionBridge for TLC.
EXTENDS ExecutionBridge

CONSTANTS t1, q1

\* Nothing tells threads or requests apart: every behaviour is, renamed, one whose
\* first call is t1's and executes q1.
FirstCall ==
    attempts = 0 /\ attempts' = 1 =>
        \A c \in Calls : pc'[c] # "idle" => Thread(c) = t1 /\ req'[c] = q1

-----------------------------------------------------------------------------
\* Two states that differ only in what no step and no property reads are the same
\* to TLC.

\* Of other events only their number is read, by comparison with head or evaluated.
Recorded ==
    LET told == SelectSeq(history, LAMBDA e : e.type \in {"Reserved", "Result"}
                                              \/ e.status = "AUTHORIZED")
    IN  [i \in 1..Len(told) |-> <<told[i].type, told[i].req>>]

\* The locals of a call, as far as its place in execute() still reads them.
Locals(c) ==
    LET since(n) == Len(history) - n
    IN  CASE pc[c] = "idle" -> << >>
          [] pc[c] = "record" -> <<req[c], outcome[c]>>
          [] pc[c] \in Preparing \union {"check"} \union Running -> <<req[c]>>
          [] pc[c] \in {"final life", "final consent", "final cap"} ->
                <<req[c], phase[c], since(head[c])>>
          [] pc[c] = "call" -> <<req[c], since(evaluated[c])>>
          [] pc[c] = "compare" /\ phase[c] = "last" ->
                <<req[c], outcome[c], since(head[c]), since(evaluated[c])>>
          [] OTHER -> <<req[c], outcome[c], since(head[c])>>

\* Some call will evaluate what the authority allows, or hand off by it.
Read == attempts < MaxAttempts \/ \E c \in Calls : pc[c] \notin {"idle", "fail"} \union Running

ReadExpiry == Read /\ expired /\ (authority.grant = "timed" \/ changes < MaxChanges)

\* TypeOK has TLC evaluate the functions it would otherwise leave unevaluated.
View ==
    <<Recorded, IF Read THEN authority ELSE << >>, ReadExpiry, lock, pc,
      [c \in Calls |-> Locals(c)], effects, lost, counters, TypeOK>>

=============================================================================
