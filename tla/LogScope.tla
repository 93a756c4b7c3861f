------------------------------ MODULE LogScope ------------------------------
(***************************************************************************)
(* Logging (crates/kernway-log/src/lib.rs): the diagnostic context a scope *)
(* puts on every line of a request, kept in a thread-local that is swapped *)
(* around each poll, and the process logger, which is installed once, by   *)
(* init or by the first line logged.                                       *)
(*                                                                         *)
(* Tasks are pinned to a thread and polled one at a time there.  A task's  *)
(* scopes are the Scoped futures it is inside of, outermost first; frames  *)
(* are the RestoreContext guards of the poll under way.                    *)
(***************************************************************************)
EXTENDS Integers, FiniteSets, SequencesExt

CONSTANTS LogTasks, ThreadOf, \* each task and its thread
          Contexts, MaxScopes, MaxLogPolls, MaxLines

\* A thread polls no task called "none".
ASSUME LogAssumption == "none" \notin LogTasks

VARIABLES current,   \* thread |-> CURRENT, or NoContext
          polling,   \* thread |-> the task being polled, or "none"
          frames,    \* thread |-> previous contexts the guards will restore
          scopes,    \* task |-> contexts of its Scoped futures, "dead" after a panic
          logger,    \* what LOGGER holds: "unset", "default" or "configured"
          lines,     \* lines emitted: [ctx, own, filter]
          polls

logVars == <<current, polling, frames, scopes, logger, lines, polls>>

Threads == {ThreadOf[t] : t \in LogTasks}
NoContext == "no context"
Dead == <<"dead">>

LogInit ==
    /\ current = [th \in Threads |-> NoContext] /\ polling = [th \in Threads |-> "none"]
    /\ frames = [th \in Threads |-> <<>>] /\ scopes = [t \in LogTasks |-> <<>>]
    /\ logger = "unset" /\ lines = <<>> /\ polls = 0

Polled(t) == polling[ThreadOf[t]] = t
Own(t) == IF scopes[t] = <<>> THEN NoContext ELSE Last(scopes[t])

\* Scoped::poll, from the outermost scope of the task to the innermost.
PollTask(t) ==
    LET th == ThreadOf[t] IN
    /\ polling[th] = "none" /\ scopes[t] # Dead /\ polls < MaxLogPolls /\ polls' = polls + 1
    /\ polling' = [polling EXCEPT ![th] = t]
    /\ frames' = [frames EXCEPT ![th] = SubSeq(<<current[th]>> \o scopes[t], 1, Len(scopes[t]))]
    /\ current' = [current EXCEPT ![th] = IF scopes[t] = <<>> THEN @ ELSE Last(scopes[t])]
    /\ UNCHANGED <<scopes, logger, lines>>

\* scope(), polled for the first time.
EnterScope(t, c) ==
    LET th == ThreadOf[t] IN
    /\ Polled(t) /\ Len(scopes[t]) < MaxScopes
    /\ scopes' = [scopes EXCEPT ![t] = Append(@, c)]
    /\ frames' = [frames EXCEPT ![th] = Append(@, current[th])]
    /\ current' = [current EXCEPT ![th] = c]
    /\ UNCHANGED <<polling, logger, lines, polls>>

\* The innermost future is ready: its guard restores.
LeaveScope(t) ==
    LET th == ThreadOf[t] IN
    /\ Polled(t) /\ scopes[t] # <<>>
    /\ scopes' = [scopes EXCEPT ![t] = Front(@)]
    /\ current' = [current EXCEPT ![th] = Last(frames[th])]
    /\ frames' = [frames EXCEPT ![th] = Front(@)]
    /\ UNCHANGED <<polling, logger, lines, polls>>

\* Every guard restores, the outermost last.
Unwind(th) == IF frames[th] = <<>> THEN current[th] ELSE Head(frames[th])

\* Pending, or a panic: all guards of the poll are dropped.
EndPoll(t, panics) ==
    LET th == ThreadOf[t] IN
    /\ Polled(t)
    /\ current' = [current EXCEPT ![th] = Unwind(th)]
    /\ frames' = [frames EXCEPT ![th] = <<>>] /\ polling' = [polling EXCEPT ![th] = "none"]
    /\ scopes' = IF panics THEN [scopes EXCEPT ![t] = Dead] ELSE scopes
    /\ UNCHANGED <<logger, lines, polls>>

\* __log: logger() installs the default if nothing is installed yet.
Emit(t) ==
    /\ Polled(t) /\ Len(lines) < MaxLines
    /\ logger' = IF logger = "unset" THEN "default" ELSE logger
    /\ lines' = Append(lines, [ctx |-> current[ThreadOf[t]], own |-> Own(t), filter |-> logger'])
    /\ UNCHANGED <<current, polling, frames, scopes, polls>>

\* init: the first call wins.
InitLogger ==
    /\ logger' = IF logger = "unset" THEN "configured" ELSE logger
    /\ UNCHANGED <<current, polling, frames, scopes, lines, polls>>

LogNext ==
    \/ \E t \in LogTasks : \/ PollTask(t) \/ LeaveScope(t) \/ Emit(t)
                           \/ \E c \in Contexts : EnterScope(t, c)
                           \/ \E p \in BOOLEAN : EndPoll(t, p)
    \/ InitLogger

-----------------------------------------------------------------------------
(* Properties.                                                              *)

LogTypeOK ==
    /\ \A th \in Threads : /\ current[th] \in Contexts \union {NoContext}
                           /\ polling[th] \in LogTasks \union {"none"}
                           /\ ToSet(frames[th]) \subseteq Contexts \union {NoContext}
    /\ logger \in {"unset", "default", "configured"} /\ Len(lines) <= MaxLines

\* Every line carries the context of the innermost scope its own task is in,
\* however polls interleave on a thread, scopes nest and polls panic; a thread
\* between polls carries none; and all lines of a process pass one filter.
LinesCarryOwnContext ==
    /\ \A i \in DOMAIN lines : lines[i].ctx = lines[i].own
    /\ \A th \in Threads : polling[th] = "none" => current[th] = NoContext
    /\ \A i, j \in DOMAIN lines : lines[i].filter = lines[j].filter

=============================================================================
