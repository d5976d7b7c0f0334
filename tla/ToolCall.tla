------------------------------ MODULE ToolCall ------------------------------
(***************************************************************************)
(* One tool call from the middleware to its answer, many at a time: the    *)
(* gates of RateLimiter, then the handler, logToolEnd and the counters of  *)
(* get_runtime_stats (internal/tools/read.go and ops.go), then the release *)
(* of the slot.                                                            *)
(*                                                                         *)
(* Every handler ends in logToolEnd, which looks at the clock before       *)
(* recordToolCall gets the lock of the counters, so calls may be recorded  *)
(* in another order than they ended in.  An entry of byTool is made with   *)
(* its first call: an entry of no calls stands for a missing one.          *)
(***************************************************************************)
EXTENDS RateLimiter, Sequences

CONSTANTS
  Tools,      \* names of registered tools
  StatsTool,  \* get_runtime_stats
  ToolOf,     \* the tool of each call
  CanFail     \* the errors a tool's handler may end in

Errors == {"empty term", "no account", "api error", "other"}

ASSUME ToolCallAssumption ==
  /\ StatsTool \in Tools
  /\ ToolOf \in [Calls -> Tools]
  /\ CanFail \in [Tools -> SUBSET Errors]
  /\ CanFail[StatsTool] = {}

VARIABLES
  work,    \* how far the handler of each call has come
  outcome, \* kind and time logToolEnd found for each call
  byTool,  \* runtimeStats
  report,  \* what runtimeStatsSnapshot gave each call
  log,     \* history: calls as they were recorded
  began    \* history: how many were recorded when a handler began

statsVars == <<work, outcome, byTool, report, log, began>>
callVars == <<vars, statsVars>>

Progress == {"none", "handler", "snapshot taken", "ended", "recorded",
             "refused"}
Kinds == {"", "invalid_input", "access_denied", "fileee_error", "error"}

NoOutcome == [kind |-> "", at |-> 0]
NoCalls == [calls |-> 0, errors |-> 0, last |-> NoOutcome]
NoReport == [t \in {} |-> NoCalls]

Advance(c, w) == work' = [work EXCEPT ![c] = w]

-----------------------------------------------------------------------------
CallInit ==
  /\ Init
  /\ work = [c \in Calls |-> "none"]
  /\ outcome = [c \in Calls |-> NoOutcome]
  /\ byTool = [t \in Tools |-> NoCalls]
  /\ report = [c \in Calls |-> NoReport]
  /\ log = <<>>
  /\ began = [c \in Calls |-> 0]

\* The steps before a handler runs.
Gates3(c) ==
  /\ Middleware(c) \/ GlobalAllow(c) \/ LimiterFor(c) \/ SubjectAllow(c)
       \/ TryAcquire(c)
  /\ UNCHANGED statsVars

\* next(ctx, method, req): the SDK calls the handler, or refuses arguments
\* that do not fit the tool's schema.
Dispatch(c) ==
  /\ stage[c] = "running" /\ work[c] = "none"
  /\ \/ Advance(c, "handler") /\ began' = [began EXCEPT ![c] = Len(log)]
     \/ Advance(c, "refused") /\ UNCHANGED began
  /\ UNCHANGED <<vars, outcome, byTool, report, log>>

\* getRuntimeStatsHandler: the counters are copied under their lock.
RuntimeStatsSnapshot(c) ==
  /\ work[c] = "handler" /\ ToolOf[c] = StatsTool
  /\ report' = [report EXCEPT ![c] = byTool]
  /\ Advance(c, "snapshot taken")
  /\ UNCHANGED <<vars, outcome, byTool, log, began>>

\* classifyErr; no error has the empty kind.
ClassifyErr(err) ==
  CASE err = "none" -> ""
    [] err = "empty term" -> "invalid_input"
    [] err = "no account" -> "access_denied"
    [] err = "api error" -> "fileee_error"
    [] OTHER -> "error"

\* The handler is through and logToolEnd takes the time.
LogToolEnd(c) ==
  /\ work[c] = IF ToolOf[c] = StatsTool THEN "snapshot taken" ELSE "handler"
  /\ \E err \in {"none"} \cup CanFail[ToolOf[c]] :
       outcome' = [outcome EXCEPT ![c] = [kind |-> ClassifyErr(err),
                                          at |-> clock]]
  /\ Advance(c, "ended")
  /\ UNCHANGED <<vars, byTool, report, log, began>>

\* An entry after one more call.
Counted(s, o) ==
  [calls |-> s.calls + 1,
   errors |-> IF o.kind = "" THEN s.errors ELSE s.errors + 1,
   last |-> IF o.kind = "" THEN s.last ELSE o]

\* Variant: without the lock two calls read the same counts.
RecordToolCallUnlocked(c) ==
  /\ work[c] = "ended"
  /\ \E others \in SUBSET {d \in Calls \ {c} :
                             work[d] = "ended" /\ ToolOf[d] = ToolOf[c]} :
       /\ Cardinality(others) <= 1
       /\ work' = [d \in Calls |-> IF d \in others \cup {c} THEN "recorded"
                                   ELSE work[d]]
       /\ log' = IF others = {} THEN Append(log, c)
                 ELSE log \o <<CHOOSE d \in others : TRUE, c>>
  /\ byTool' = [byTool EXCEPT ![ToolOf[c]] = Counted(@, outcome[c])]
  /\ UNCHANGED <<vars, outcome, report, began>>

\* recordToolCall, all of it under the lock.
RecordToolCall(c) ==
  /\ work[c] = "ended"
  /\ byTool' = [byTool EXCEPT ![ToolOf[c]] = Counted(@, outcome[c])]
  /\ log' = Append(log, c)
  /\ Advance(c, "recorded")
  /\ UNCHANGED <<vars, outcome, report, began>>

\* Variant: the snapshot shares the entries, which move on until the answer
\* is written.
ReleaseSharedEntries(c) ==
  /\ work[c] \in {"recorded", "refused"}
  /\ Return(c)
  /\ report' = IF ToolOf[c] = StatsTool /\ work[c] = "recorded"
               THEN [report EXCEPT ![c] = byTool] ELSE report
  /\ UNCHANGED <<work, outcome, byTool, log, began>>

\* The deferred release and the answer.
Release(c) ==
  /\ work[c] \in {"recorded", "refused"}
  /\ Return(c)
  /\ UNCHANGED statsVars

CallStep(c) ==
  \/ Gates3(c) \/ Dispatch(c) \/ RuntimeStatsSnapshot(c) \/ LogToolEnd(c)
  \/ RecordToolCall(c) \/ Release(c)

CallNext ==
  \/ \E c \in Calls : CallStep(c)
  \/ (Tick \/ Mark) /\ UNCHANGED statsVars

CallSpec == CallInit /\ [][CallNext]_callVars

-----------------------------------------------------------------------------
Outcomes == [kind : Kinds, at : Nat]
Entries == [calls : Nat, errors : Nat, last : Outcomes]

StatsTypeOK ==
  /\ work \in [Calls -> Progress]
  /\ outcome \in [Calls -> Outcomes]
  /\ byTool \in [Tools -> Entries]
  /\ report \in [Calls -> [Tools -> Entries] \cup {NoReport}]
  /\ log \in Seq(Calls)
  /\ began \in [Calls -> 0 .. Len(log)]

\* The types of the limiter and of the counters: no bucket goes below empty,
\* every outcome is of the fixed vocabulary.
CallTypeOK == TypeOK /\ StatsTypeOK

\* The first n recorded calls of tool t, and the failed ones among them.
EndedOf(t, n) == {i \in 1 .. n : ToolOf[log[i]] = t}
FailedOf(t, n) == {i \in EndedOf(t, n) : outcome[log[i]].kind # ""}

\* Entry s says of tool t what its calls among the first n recorded came to.
Shows(s, t, n) ==
  /\ s.calls = Cardinality(EndedOf(t, n))
  /\ s.errors = Cardinality(FailedOf(t, n))
  /\ FailedOf(t, n) = {} => s.last = NoOutcome
  /\ \A i \in FailedOf(t, n) :
       (\A j \in FailedOf(t, n) : j <= i) => s.last = outcome[log[i]]

Recorded == {c \in Calls : work[c] = "recorded"}

\* Every call whose handler ended is counted once, with its own outcome, and
\* the last error shown is the one recorded last: ends that meet lose
\* nothing.
CountsMatchCalls ==
  /\ Len(log) = Cardinality(Recorded)
  /\ \A t \in Tools : Shows(byTool[t], t, Len(log))

\* Every answer of get_runtime_stats is the counters of one moment, after
\* its handler began: it misses no call that had ended before, it mixes no
\* two moments, and it leaves out its own call.
ReportsAreMoments ==
  \A c \in Calls : report[c] # NoReport =>
    \E n \in began[c] .. Len(log) :
      /\ \A i \in 1 .. n : log[i] # c
      /\ \A t \in Tools : Shows(report[c][t], t, n)
=============================================================================
