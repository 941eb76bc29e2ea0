--------------------------- MODULE AdapterProcess ---------------------------
(***************************************************************************)
(* One adapter process and the session on it (adapters/process.go,         *)
(* session.go, codec.go, protocol.go).                                     *)
(*                                                                         *)
(* Core's side is five goroutines: the caller (StartSession, then the      *)
(* workload's collections), the supervisor, which cancels the workload and *)
(* stops the session, the reader of the adapter's stdout, the waiter for   *)
(* its exit, and the copier of stderr, which is left out.  They share the  *)
(* one pending call, the failure, which is set once and kills the process, *)
(* and the channels failed and done.                                       *)
(*                                                                         *)
(* The adapter is another program.  It answers, may answer late, twice or  *)
(* with the wrong identifier, announces itself twice, writes nonsense,     *)
(* exits when it likes, and need not heed the end of its stdin or an       *)
(* interrupt; it cannot survive a kill.                                    *)
(*                                                                         *)
(* Timers are free to end at any time.  A select with several ready cases  *)
(* takes any of them.  A request fits into the pipe, so writing it does    *)
(* not block.                                                              *)
(***************************************************************************)
EXTENDS Integers, Sequences, FiniteSets

CONSTANTS
    MaxCalls,   \* bound on calls
    MaxPipe,    \* bound on lines of stdout not read yet
    MaxOdd,     \* bound on lines a correct adapter would not write
    None        \* no call, no failure

(* The codes a process fails with: "protocol" is any of those that a line of
   stdout is refused with. *)
Failures == {"protocol", "partial_line", "internal_failure", "process_exit", "unsupported_protocol",
             "startup_timeout", "write_failed", "request_timeout"}

ASSUME ProcessAssumption ==
    /\ {MaxCalls, MaxPipe, MaxOdd} \subseteq Nat \ {0}
    /\ None \notin Failures

VARIABLES
    proc,       \* the process: "running" or "exited"
    signals,    \* what was sent to it: "interrupt", "kill"
    stdin,      \* "open" or "closed", by Core
    inbox,      \* requests written to stdin and not answered yet
    stdout,     \* lines written and not read yet
    odd,        \* lines written so far that a correct adapter would not write
    readySeen,  \* Process.readySeen
    ready,      \* the channel ready, of one element
    pending,    \* Process.pending
    box,        \* the caller's channel for the response, of one element
    stopping,   \* Process.stopping
    failure,    \* Process.failureErr; the channel failed is closed when it is set
    reader,     \* readStdout: "reading" or "ended"
    waiter,     \* wait: "waiting", "reaped", "reported" or "done" (the channel is closed)
    caller,     \* the caller: where it is, its step and its call
    cancelled,  \* the context of the caller is cancelled
    stop,       \* how far Stop is
    calls,      \* calls registered so far
    got         \* <<call, request answered>> of the calls that succeeded (history)

vars == <<proc, signals, stdin, inbox, stdout, odd, readySeen, ready, pending, box,
          stopping, failure, reader, waiter, caller, cancelled, stop, calls, got>>

adapter == <<proc, inbox, stdout, odd>>

-----------------------------------------------------------------------------
(* StartSession's calls, before the collections. *)
Handshake == <<"manifest", "validate_config", "health">>

Operation(step) == IF step <= Len(Handshake) THEN Handshake[step] ELSE "collect"

(* The session is open once every call of the handshake has succeeded. *)
Open == caller.step > Len(Handshake)

Line(kind, id, body) == [kind |-> kind, id |-> id, body |-> body]

Call(id, owner) == [id |-> id, owner |-> owner, delivered |-> FALSE]

Init ==
    /\ proc = "running" /\ signals = {} /\ stdin = "open"
    /\ inbox = {} /\ stdout = <<>> /\ odd = 0
    /\ readySeen = FALSE /\ ready = None
    /\ pending = None /\ box = None /\ stopping = FALSE /\ failure = None
    /\ reader = "reading" /\ waiter = "waiting"
    /\ caller = [pc |-> "starting", step |-> 1, call |-> 0]
    /\ cancelled = FALSE /\ stop = "none"
    /\ calls = 0 /\ got = {}

(* Variant: the process is not killed. *)
FailOnly(code) ==
    /\ failure' = IF failure = None THEN code ELSE failure
    /\ UNCHANGED signals

(* fail: the first failure is kept, and the process killed. *)
FailWith(code) ==
    /\ failure' = IF failure = None THEN code ELSE failure
    /\ signals' = signals \cup {"kill"}

NoFailure == UNCHANGED <<failure, signals>>

-----------------------------------------------------------------------------
(* The adapter *)

Alive == proc = "running"

Say(line) == Len(stdout) < MaxPipe /\ stdout' = Append(stdout, line)

Core == <<signals, stdin, readySeen, ready, pending, box, stopping, failure, reader, waiter,
          caller, cancelled, stop, calls, got>>

(* It announces itself, with a version Core may not speak. *)
Announce ==
    /\ Alive
    /\ \E body \in {"good", "bad"} : Say(Line("ready", 0, body))
    /\ odd < MaxOdd /\ odd' = odd + 1
    /\ UNCHANGED <<proc, inbox, Core>>

(* It answers a request, with the expected payload, another one, or an error. *)
Answer(id) ==
    /\ Alive /\ id \in inbox
    /\ \E body \in {"good", "bad", "error"} : Say(Line("response", id, body))
    /\ inbox' = inbox \ {id}
    /\ UNCHANGED <<proc, odd, Core>>

(* It answers again, answers what was not asked, logs, or writes nonsense. *)
Misbehave ==
    /\ Alive /\ odd < MaxOdd
    /\ \/ \E id \in 1 .. calls : Say(Line("response", id, "good"))
       \/ \E body \in {"good", "bad"} : Say(Line("log", 0, body))
       \/ Say(Line("other", 0, "bad"))
    /\ odd' = odd + 1
    /\ UNCHANGED <<proc, inbox, Core>>

(* It exits by itself: a crash, the end of stdin, or an interrupt it heeds. *)
Exit ==
    /\ Alive
    /\ proc' = "exited"
    /\ UNCHANGED <<inbox, stdout, odd, Core>>

(* A kill ends it. *)
Killed ==
    /\ Alive /\ "kill" \in signals
    /\ proc' = "exited"
    /\ UNCHANGED <<inbox, stdout, odd, Core>>

-----------------------------------------------------------------------------
(* readStdout and dispatch *)

Shared == <<proc, inbox, odd, stdin, stopping, waiter, cancelled, stop, calls, got>>

(* Variant: a response is taken for that of the pending call. *)
AnyAnswer(line) == pending # None

(* The response names the pending request, and no other one came before it. *)
Answers(line) == pending # None /\ pending.id = line.id /\ ~ pending.delivered

(* One line is read and dispatched.  After a failure lines are dropped; a ready
   notification is accepted once and outside of calls; a log line must be one; a
   response goes to the pending call it names.  Anything else is a failure, and a
   line that is no envelope also ends the reader. *)
Dispatch ==
    LET line == Head(stdout)
        accepted == line.kind = "response" /\ Answers(line)
        announced == line.kind = "ready" /\ ~ readySeen /\ pending = None
    IN  /\ reader = "reading" /\ stdout # <<>>
        /\ stdout' = Tail(stdout)
        /\ reader' = IF line.kind = "other" THEN "ended" ELSE reader
        /\ pending' = IF failure = None /\ accepted
                      THEN [pending EXCEPT !.delivered = TRUE] ELSE pending
        /\ box' = IF failure = None /\ accepted /\ pending.owner = "caller" THEN line ELSE box
        /\ readySeen' = (readySeen \/ (failure = None /\ announced))
        /\ ready' = IF failure = None /\ announced THEN line.body ELSE ready
        /\ IF failure = None /\ ~ accepted /\ ~ announced /\ ~ (line.kind = "log" /\ line.body = "good")
           THEN FailWith("protocol") ELSE NoFailure
        /\ UNCHANGED <<Shared, caller>>

(* The end of stdout: an orderly one, one in the middle of a line, or, once the
   waiter has closed the pipe, a read error with whatever was still in it lost. *)
ReadEnd ==
    /\ reader = "reading" /\ ~ Alive
    /\ \/ stdout = <<>> /\ NoFailure
       \/ stdout = <<>> /\ FailWith("partial_line")
       \/ waiter # "waiting" /\ FailWith("internal_failure")
    /\ reader' = "ended"
    /\ stdout' = <<>>
    /\ UNCHANGED <<Shared, readySeen, ready, pending, box, caller>>

(* wait *)

Rest == <<adapter, stdin, readySeen, ready, pending, box, stopping, reader, caller, cancelled, stop, calls, got>>

(* cmd.Wait returns. *)
Reap ==
    /\ waiter = "waiting" /\ ~ Alive
    /\ waiter' = "reaped"
    /\ UNCHANGED <<Rest, failure, signals>>

(* An exit nobody asked for is a failure. *)
ExitFailure == IF stopping THEN NoFailure ELSE FailWith("process_exit")

ReportExit ==
    /\ waiter = "reaped"
    /\ waiter' = "reported"
    /\ ExitFailure
    /\ UNCHANGED Rest

CloseDone ==
    /\ waiter = "reported"
    /\ waiter' = "done"
    /\ UNCHANGED <<Rest, failure, signals>>

-----------------------------------------------------------------------------
(* Calls, of the caller and of Stop *)

(* Process.call registers its request, unless the process has failed, is stopping,
   or has a call under way. *)
MayRegister(owner) == failure = None /\ (stopping => owner = "stop") /\ pending = None

Register(owner) == pending' = Call(calls + 1, owner) /\ calls' = calls + 1

(* clearPending: the slot is freed if it still is this call's. *)
Clear(id) == pending' = IF pending # None /\ pending.id = id THEN None ELSE pending

Quiet == <<adapter, stdin, readySeen, ready, stopping, reader, waiter, cancelled, stop>>

GoOn == caller' = [caller EXCEPT !.pc = "next"]

(* A call has failed: there will be no session, or the workload ends. *)
Refuse == caller' = [caller EXCEPT !.pc = IF Open THEN "ended" ELSE "refused"]

(* StartProcess waits for the ready notification, a failure, the exit, or its
   timer or cancellation, which is a failure.  After the exit there is nothing to
   stop. *)
Start ==
    /\ caller.pc = "starting"
    /\ \/ ready = "good" /\ GoOn /\ NoFailure
       \/ ready = "bad" /\ Refuse /\ FailWith("unsupported_protocol")
       \/ failure # None /\ Refuse /\ NoFailure
       \/ waiter = "done" /\ caller' = [caller EXCEPT !.pc = "gone"] /\ NoFailure
       \/ Refuse /\ FailWith("startup_timeout")
    /\ UNCHANGED <<Quiet, pending, box, calls, got>>

(* The next call is registered. *)
BeginCall ==
    /\ caller.pc = "next" /\ calls < MaxCalls
    /\ IF MayRegister("caller") /\ ~ cancelled
       THEN /\ Register("caller")
            /\ caller' = [caller EXCEPT !.pc = "write", !.call = calls + 1]
            /\ box' = None
       ELSE Refuse /\ UNCHANGED <<pending, box, calls>>
    /\ UNCHANGED <<Quiet, failure, signals, got>>

(* ResolveConfig finds no secret for validate_config; before a collection this
   only costs the collection. *)
ResolveFails ==
    /\ caller.pc = "next" /\ Operation(caller.step) = "validate_config"
    /\ Refuse
    /\ UNCHANGED <<Quiet, pending, box, calls, got, failure, signals>>

(* The request is written; a closed pipe is a failure. *)
WriteRequest ==
    /\ caller.pc = "write"
    /\ IF stdin = "open" /\ Alive
       THEN /\ inbox' = inbox \cup {caller.call}
            /\ caller' = [caller EXCEPT !.pc = "await"]
            /\ UNCHANGED <<pending, failure, signals>>
       ELSE Refuse /\ FailWith("write_failed") /\ Clear(caller.call) /\ UNCHANGED inbox
    /\ UNCHANGED <<proc, stdout, odd, stdin, readySeen, ready, box, stopping, reader, waiter,
                   cancelled, stop, calls, got>>

(* The response is there in time.  A good payload is the result; an error, or a
   payload that cannot be decoded or does not say what it must, is none: that
   refuses the session, but a workload goes on unless the process has failed. *)
Receive ==
    /\ caller.pc = "await" /\ box # None
    /\ IF box.body = "good"
       THEN /\ got' = got \cup {<<caller.call, box.id>>}
            /\ caller' = [caller EXCEPT !.pc = "next",
                                        !.step = IF @ <= Len(Handshake) THEN @ + 1 ELSE @]
       ELSE /\ UNCHANGED got
            /\ IF Open /\ failure = None THEN GoOn ELSE Refuse
    /\ Clear(caller.call)
    /\ UNCHANGED <<Quiet, box, calls, failure, signals>>

(* Variant: only a failure is waited for. *)
GoneIfFailed == failure # None

(* The channels failed and done. *)
Gone == failure # None \/ waiter = "done"

(* The process has failed or exited. *)
Woken ==
    /\ caller.pc = "await" /\ Gone
    /\ IF Open /\ failure = None THEN GoOn ELSE Refuse
    /\ Clear(caller.call)
    /\ UNCHANGED <<Quiet, box, calls, got, failure, signals>>

(* The deadline has passed or the context is cancelled, perhaps with the response
   just in: a failure of the process. *)
GiveUp ==
    /\ caller.pc = "await"
    /\ FailWith("request_timeout")
    /\ Refuse
    /\ Clear(caller.call)
    /\ UNCHANGED <<Quiet, box, calls, got>>

-----------------------------------------------------------------------------
(* The supervisor, and Stop *)

Others == <<adapter, readySeen, ready, box, reader, waiter, caller, got>>

(* The supervisor's context is cancelled, or it cancels the workload. *)
Cancel ==
    /\ ~ cancelled
    /\ cancelled' = TRUE
    /\ UNCHANGED <<Others, signals, stdin, pending, stopping, failure, stop, calls>>

(* The supervisor sees that the process of an open session is gone, cancels the
   workload, and has nothing to stop. *)
Notice ==
    /\ stop = "none" /\ Open /\ waiter = "done"
    /\ stop' = "noticed"
    /\ cancelled' = TRUE
    /\ UNCHANGED <<Others, signals, stdin, pending, stopping, failure, calls>>

(* A session that was refused is stopped by the goroutine that started it, an open
   one when the supervisor was cancelled or the workload has ended. *)
StopBegin ==
    /\ stop = "none"
    /\ caller.pc \in {"refused", "ended"} \/ (cancelled /\ Open)
    /\ stopping' = TRUE
    /\ stop' = "ask"
    /\ UNCHANGED <<Others, signals, stdin, pending, failure, cancelled, calls>>

(* The shutdown request is registered, unless the process has failed or a call is
   still under way. *)
AskShutdown ==
    /\ stop = "ask"
    /\ IF MayRegister("stop")
       THEN Register("stop") /\ stop' = "write"
       ELSE stop' = "close" /\ UNCHANGED <<pending, calls>>
    /\ UNCHANGED <<Others, signals, stdin, stopping, failure, cancelled>>

WriteShutdown ==
    /\ stop = "write"
    /\ IF Alive
       THEN /\ inbox' = inbox \cup {pending.id} /\ stop' = "asked"
            /\ UNCHANGED <<pending, failure, signals>>
       ELSE FailWith("write_failed") /\ stop' = "close" /\ pending' = None /\ UNCHANGED inbox
    /\ UNCHANGED <<proc, stdout, odd, stdin, readySeen, ready, box, stopping, reader, waiter, caller,
                   cancelled, calls, got>>

(* Its answer, a failure, the exit, or the end of ShutdownTimeout, which here is
   no failure: an answer that comes later is. *)
ShutdownOver ==
    /\ stop = "asked"
    /\ stop' = "close"
    /\ pending' = None
    /\ UNCHANGED <<Others, signals, stdin, stopping, failure, cancelled, calls>>

CloseStdin ==
    /\ stop = "close"
    /\ stdin' = "closed"
    /\ stop' = "wait"
    /\ UNCHANGED <<Others, signals, pending, stopping, failure, cancelled, calls>>

(* waitForExit and finishStop. *)
Exited ==
    /\ stop \in {"wait", "interrupted", "killed"}
    /\ waiter = "done"
    /\ stop' = "stopped"
    /\ pending' = None
    /\ UNCHANGED <<Others, signals, stdin, stopping, failure, cancelled, calls>>

(* Variant: a second interrupt instead of the kill. *)
NoKill == "interrupt"

(* The last resort. *)
LastSignal == "kill"

(* The wait is over before the process is: an interrupt, then a kill, then the
   cancellation of the command, which is a kill as well, and an error. *)
Escalate ==
    /\ stop \in {"wait", "interrupted", "killed"}
    /\ stop' = CASE stop = "wait" -> "interrupted" [] stop = "interrupted" -> "killed" [] OTHER -> "timeout"
    /\ signals' = signals \cup {IF stop = "wait" THEN "interrupt" ELSE LastSignal}
    /\ UNCHANGED <<Others, stdin, pending, stopping, failure, cancelled, calls>>

-----------------------------------------------------------------------------
Next ==
    \/ Announce \/ \E id \in inbox : Answer(id)
    \/ Misbehave \/ Exit \/ Killed
    \/ Dispatch \/ ReadEnd \/ Reap \/ ReportExit \/ CloseDone
    \/ Start \/ BeginCall \/ ResolveFails \/ WriteRequest \/ Receive \/ Woken \/ GiveUp
    \/ Cancel \/ Notice \/ StopBegin \/ AskShutdown \/ WriteShutdown \/ ShutdownOver \/ CloseStdin \/ Exited \/ Escalate

(* Goroutines that can go on do, and Stop's timers end.  Nothing is asked of the
   adapter but to die of a kill, and nothing of the timer of a call. *)
Fairness ==
    /\ WF_vars(Killed)
    /\ WF_vars(Dispatch) /\ WF_vars(ReadEnd)
    /\ WF_vars(Reap) /\ WF_vars(ReportExit) /\ WF_vars(CloseDone)
    /\ WF_vars(WriteRequest) /\ WF_vars(Receive) /\ WF_vars(Woken)
    /\ WF_vars(StopBegin) /\ WF_vars(AskShutdown) /\ WF_vars(WriteShutdown) /\ WF_vars(ShutdownOver)
    /\ WF_vars(CloseStdin) /\ WF_vars(Exited) /\ WF_vars(Escalate)

Spec == Init /\ [][Next]_vars /\ Fairness

-----------------------------------------------------------------------------
(* Every variable has its type. *)
TypeOK ==
    /\ proc \in {"running", "exited"} /\ stdin \in {"open", "closed"}
    /\ signals \subseteq {"interrupt", "kill"}
    /\ inbox \subseteq 1 .. calls /\ Len(stdout) <= MaxPipe /\ odd \in 0 .. MaxOdd
    /\ pending # None => pending.id \in 1 .. calls /\ pending.owner \in {"caller", "stop"}
    /\ failure \in Failures \cup {None}
    /\ reader \in {"reading", "ended"} /\ waiter \in {"waiting", "reaped", "reported", "done"}
    /\ caller.pc \in {"starting", "next", "write", "await", "ended", "refused", "gone"}
    /\ stop \in {"none", "noticed", "ask", "write", "asked", "close", "wait", "interrupted", "killed",
                 "stopped", "timeout"}
    /\ calls \in 0 .. MaxCalls + 1

(* A call that succeeds returns the answer to its own request: not a late or
   repeated answer to an earlier one, whatever the adapter writes and however
   calls and the stop overlap. *)
AnswerMatches == \A answer \in got : answer[1] = answer[2]

(* Once the supervisor can see that the process is gone, a reason is recorded,
   unless Core itself was stopping it: the supervisor reads both afterwards. *)
ExitExplained == waiter = "done" => failure # None \/ stopping

(* A stop that says it succeeded leaves no process. *)
StoppedIsGone == stop = "stopped" => ~ Alive

(* What holds of the process and its calls at any time, whatever the adapter
   writes and whenever it exits. *)
ProcessInv == TypeOK /\ AnswerMatches /\ ExitExplained /\ StoppedIsGone

(* A process that failed is gone some time, and the supervisor learns of it by
   the channel it waits for. *)
FailureEndsProcess == failure # None ~> waiter = "done"

(* A stop returns and leaves no process, whatever the adapter ignores. *)
StopEndsProcess ==
    (stop \notin {"none", "noticed"}) ~> (stop \in {"stopped", "timeout"} /\ ~ Alive)

(* A caller does not outwait a process that is gone: it is told by the channels
   and needs no timer. *)
ExitWakesCaller == waiter = "done" ~> caller.pc # "await"
=============================================================================
