------------------------ MODULE AdapterProcess_proofs ------------------------
(***************************************************************************)
(* Proofs about an adapter process: that an answer reaches the call it is  *)
(* the answer to, that an exit is explained and that a stop leaves no      *)
(* process hold for any number of calls and whatever the adapter writes.   *)
(***************************************************************************)
EXTENDS AdapterProcess, TLAPS

(* What a line of stdout, a call that awaits its answer, and the goroutine that
   makes the calls can be. *)
Lines == [kind: {"ready", "response", "log", "other"}, id: Nat, body: {"good", "bad", "error"}]

Calls == [id: Nat, owner: {"caller", "stop"}, delivered: BOOLEAN]

Callers == [pc: {"starting", "next", "write", "await", "ended", "refused", "gone"},
            step: Nat, call: Nat]

(* Lines, calls and the caller are records of their kinds. *)
Shapes ==
    /\ stdout \in Seq(Lines)
    /\ pending \in Calls \cup {None}
    /\ caller \in Callers

(* The slot for the pending call is used by one owner at a time: the caller's
   call is its latest and it still works on it, the stop's is a later one and
   the caller cannot clear it. *)
SlotOwned ==
    /\ caller.call \in 0 .. calls
    /\ caller.pc = "write" => caller.call # 0
    /\ pending # None =>
          IF pending.owner = "caller"
          THEN pending.id = caller.call /\ caller.pc \in {"write", "await"}
          ELSE pending.id # caller.call
    /\ stop \in {"ask", "write"} => stopping
    /\ stop = "write" => /\ pending \in Calls /\ pending.id \in 1 .. calls
                          /\ pending.owner = "stop" /\ pending.id # caller.call

(* What is in the caller's channel while it waits is for its latest call. *)
BoxIsForCall == caller.pc \in {"write", "await"} /\ box # None => box.id = caller.call

(* The waiter reports after the exit, and Stop returns after the waiter. *)
ExitOrdered ==
    /\ waiter # "waiting" => ~ Alive
    /\ waiter \in {"reported", "done"} => failure # None \/ stopping
    /\ stop = "stopped" => waiter = "done"

(* A process that failed was sent a kill. *)
FailureKills == failure # None => "kill" \in signals

(* The bound on calls leaves room for the one of Stop. *)
RoomForShutdown == stop \in {"none", "noticed", "ask"} => calls <= MaxCalls

(* The inductive invariant. *)
ProcessInd ==
    /\ TypeOK /\ Shapes /\ SlotOwned /\ BoxIsForCall /\ ExitOrdered
    /\ FailureKills /\ RoomForShutdown /\ AnswerMatches

-----------------------------------------------------------------------------
(* The adapter writes a line, or exits: Core's side is as it was. *)
LEMMA AdapterStep ==
    ASSUME ProcessInd,
           Announce \/ (\E id \in inbox : Answer(id)) \/ Misbehave \/ Exit \/ Killed
    PROVE  ProcessInd'
<1> USE ProcessAssumption
<1>0. TypeOK /\ Shapes /\ SlotOwned /\ BoxIsForCall /\ ExitOrdered /\ FailureKills /\ RoomForShutdown /\ AnswerMatches
  BY DEF ProcessInd
<1>1. UNCHANGED <<signals, stdin, readySeen, ready, pending, box, stopping, failure, reader, waiter,
                  caller, cancelled, stop, calls, got>>
  BY DEF Announce, Answer, Misbehave, Exit, Killed, Core
<1>2. proc = "running" /\ proc' \in {"running", "exited"} /\ inbox' \subseteq inbox /\ odd' \in 0 .. MaxOdd
  BY <1>0 DEF Announce, Answer, Misbehave, Exit, Killed, Alive, TypeOK
<1>3. stdout' \in Seq(Lines) /\ Len(stdout') <= MaxPipe
  <2>1. \A line \in Lines : Say(line) => stdout' \in Seq(Lines) /\ Len(stdout') <= MaxPipe
    BY <1>0 DEF Say, Shapes
  <2>2. \A id \in Nat : \A kind \in {"ready", "response", "log", "other"}, body \in {"good", "bad", "error"} :
          Line(kind, id, body) \in Lines
    BY DEF Line, Lines
  <2>3. inbox \subseteq Nat /\ 1 .. calls \subseteq Nat
    BY <1>0 DEF TypeOK
  <2>4. CASE Announce
    BY <2>1, <2>2, <2>4 DEF Announce
  <2>5. CASE \E id \in inbox : Answer(id)
    BY <2>1, <2>2, <2>3, <2>5 DEF Answer
  <2>6. CASE Misbehave
    BY <2>1, <2>2, <2>3, <2>6 DEF Misbehave
  <2>7. CASE Exit \/ Killed
    BY <1>0, <2>7 DEF Exit, Killed, Shapes, TypeOK
  <2> QED
    BY <2>4, <2>5, <2>6, <2>7
<1>4. TypeOK' /\ Shapes'
  BY <1>0, <1>1, <1>2, <1>3 DEF TypeOK, Shapes
<1>5. SlotOwned' /\ BoxIsForCall' /\ AnswerMatches' /\ FailureKills' /\ RoomForShutdown'
  BY <1>0, <1>1 DEF SlotOwned, BoxIsForCall, AnswerMatches, FailureKills, RoomForShutdown
<1>6. ExitOrdered'
  BY <1>0, <1>1, <1>2 DEF ExitOrdered, Alive
<1> QED
  BY <1>4, <1>5, <1>6 DEF ProcessInd

(* fail records the first failure and kills; nothing takes either back. *)
LEMMA FailedStep ==
    ASSUME TypeOK, FailureKills,
           NoFailure \/ \E code \in Failures : FailWith(code)
    PROVE  /\ failure' \in Failures \cup {None} /\ signals' \subseteq {"interrupt", "kill"}
           /\ FailureKills'
           /\ failure # None => failure' # None
           /\ (\E code \in Failures : FailWith(code)) => failure' # None
BY ProcessAssumption DEF TypeOK, FailureKills, FailWith, NoFailure

(* A response is put into the caller's channel only for the call that is
   pending, so only for the caller's latest. *)
LEMMA DispatchStep ==
    ASSUME ProcessInd, Dispatch
    PROVE  ProcessInd'
<1>0. TypeOK /\ Shapes /\ SlotOwned /\ BoxIsForCall /\ ExitOrdered /\ FailureKills /\ RoomForShutdown /\ AnswerMatches
  BY DEF ProcessInd
<1>1. UNCHANGED <<proc, inbox, odd, stdin, stopping, waiter, cancelled, stop, calls, got, caller>>
  BY DEF Dispatch, Shared
<1>2. /\ stdout' \in Seq(Lines) /\ Len(stdout') <= MaxPipe
      /\ Head(stdout) \in Lines
  <2>1. stdout \in Seq(Lines) /\ stdout # <<>> /\ stdout' = Tail(stdout) /\ Len(stdout) <= MaxPipe
    BY <1>0 DEF Dispatch, Shapes, TypeOK
  <2>2. Len(Tail(stdout)) = Len(stdout) - 1 /\ Tail(stdout) \in Seq(Lines) /\ Head(stdout) \in Lines
    BY <2>1
  <2> QED
    BY <2>1, <2>2, ProcessAssumption
<1>3. /\ pending' = pending \/ (pending # None /\ pending' = [pending EXCEPT !.delivered = TRUE])
      /\ box' = box \/ (pending # None /\ pending.owner = "caller" /\ box' = Head(stdout)
                          /\ pending.id = Head(stdout).id)
      /\ reader' \in {"reading", "ended"}
  BY <1>0 DEF Dispatch, Answers, TypeOK
<1>4. /\ pending' \in Calls \cup {None}
      /\ pending \notin Calls => pending' = pending
      /\ pending \in Calls => pending' \in Calls /\ pending'.id = pending.id /\ pending'.owner = pending.owner
      /\ pending = None => pending' = None
  BY <1>0, <1>3 DEF Shapes, Calls
<1>5. NoFailure \/ \E code \in Failures : FailWith(code)
  BY DEF Dispatch, Failures
<1>6. TypeOK' /\ Shapes'
  BY <1>0, <1>1, <1>2, <1>3, <1>4, <1>5, FailedStep DEF TypeOK, Shapes
<1>7. SlotOwned'
  BY <1>0, <1>1, <1>3, <1>4 DEF SlotOwned, Shapes
<1>8. BoxIsForCall'
  BY <1>0, <1>1, <1>3 DEF BoxIsForCall, SlotOwned
<1>9. ExitOrdered' /\ FailureKills'
  BY <1>0, <1>1, <1>5, FailedStep DEF ExitOrdered, Alive
<1>10. RoomForShutdown' /\ AnswerMatches'
  BY <1>0, <1>1 DEF RoomForShutdown, AnswerMatches
<1> QED
  BY <1>6, <1>7, <1>8, <1>9, <1>10 DEF ProcessInd

(* The reader's end and the waiter's steps: the exit comes before its report,
   and the report before done is closed. *)
LEMMA ExitStep ==
    ASSUME ProcessInd, ReadEnd \/ Reap \/ ReportExit \/ CloseDone
    PROVE  ProcessInd'
<1>0. TypeOK /\ Shapes /\ SlotOwned /\ BoxIsForCall /\ ExitOrdered /\ FailureKills /\ RoomForShutdown /\ AnswerMatches
  BY DEF ProcessInd
<1>1. UNCHANGED <<proc, inbox, odd, stdin, pending, box, stopping, cancelled, stop, calls, got, caller>>
  BY DEF ReadEnd, Reap, ReportExit, CloseDone, Shared, Rest, adapter
<1>2. stdout' \in Seq(Lines) /\ Len(stdout') <= MaxPipe
  <2>1. stdout' = stdout \/ stdout' = <<>>
    BY DEF ReadEnd, Reap, ReportExit, CloseDone, Rest, adapter
  <2>2. <<>> \in Seq(Lines) /\ Len(<<>>) = 0 /\ 0 <= MaxPipe
    BY ProcessAssumption
  <2> QED
    BY <1>0, <2>1, <2>2 DEF Shapes, TypeOK
<1>3. /\ reader' \in {"reading", "ended"}
      /\ waiter' \in {"waiting", "reaped", "reported", "done"}
  BY <1>0 DEF ReadEnd, Reap, ReportExit, CloseDone, Shared, Rest, TypeOK
<1>4. NoFailure \/ \E code \in Failures : FailWith(code)
  BY DEF ReadEnd, Reap, ReportExit, CloseDone, ExitFailure, NoFailure, Failures
<1>5. TypeOK' /\ Shapes'
  BY <1>0, <1>1, <1>2, <1>3, <1>4, FailedStep DEF TypeOK, Shapes
<1>6. SlotOwned' /\ BoxIsForCall' /\ AnswerMatches' /\ RoomForShutdown'
  BY <1>0, <1>1 DEF SlotOwned, BoxIsForCall, AnswerMatches, RoomForShutdown
<1>7. FailureKills' /\ (failure # None => failure' # None)
  BY <1>0, <1>4, FailedStep
<1>8. ExitOrdered'
  <2>1. waiter' # "waiting" => ~ Alive'
    BY <1>0, <1>1 DEF ExitOrdered, ReadEnd, Reap, ReportExit, CloseDone, Shared, Alive
  <2>2. waiter' \in {"reported", "done"} => failure' # None \/ stopping'
    <3>1. CASE ReportExit
      <4>1. ~ stopping => \E code \in Failures : FailWith(code)
        BY <3>1 DEF ReportExit, ExitFailure, Failures
      <4> QED
        BY <1>0, <1>1, <4>1, FailedStep
    <3>2. CASE ReadEnd \/ Reap \/ CloseDone
      BY <1>0, <1>1, <1>7, <3>2 DEF ExitOrdered, ReadEnd, Reap, CloseDone, Shared
    <3> QED
      BY <3>1, <3>2
  <2>3. stop' = "stopped" => waiter' = "done"
    BY <1>0, <1>1 DEF ExitOrdered, ReadEnd, Reap, ReportExit, CloseDone, Shared
  <2> QED
    BY <2>1, <2>2, <2>3 DEF ExitOrdered
<1> QED
  BY <1>5, <1>6, <1>7, <1>8 DEF ProcessInd

(* The caller registers a call: the slot was free, its channel is new. *)
LEMMA BeginCallStep ==
    ASSUME ProcessInd, BeginCall
    PROVE  ProcessInd'
<1>0. TypeOK /\ Shapes /\ SlotOwned /\ BoxIsForCall /\ ExitOrdered /\ FailureKills /\ RoomForShutdown /\ AnswerMatches
  BY DEF ProcessInd
<1>1. UNCHANGED <<proc, signals, stdin, inbox, stdout, odd, readySeen, ready, stopping, failure,
                  reader, waiter, cancelled, stop, got>>
  BY DEF BeginCall, Quiet, adapter
<1>2. calls \in Nat /\ caller \in Callers /\ MaxCalls \in Nat /\ calls < MaxCalls /\ caller.pc = "next"
  BY <1>0, ProcessAssumption DEF TypeOK, Shapes, BeginCall
<1>3. CASE MayRegister("caller") /\ ~ cancelled
  <2>1. pending = None /\ ~ stopping
    BY <1>3 DEF MayRegister
  <2>2. /\ pending' = [id |-> calls + 1, owner |-> "caller", delivered |-> FALSE]
        /\ calls' = calls + 1 /\ box' = None
        /\ caller' = [caller EXCEPT !.pc = "write", !.call = calls + 1]
    BY <1>3 DEF BeginCall, Register, Call
  <2>3. caller' \in Callers /\ caller'.pc = "write" /\ caller'.call = calls + 1
    <3>1. caller' = [pc |-> "write", step |-> caller.step, call |-> calls + 1]
      BY <1>2, <2>2 DEF Callers
    <3> QED
      BY <1>2, <3>1 DEF Callers
  <2>4. pending' \in Calls /\ pending'.id = calls + 1 /\ pending'.owner = "caller"
    BY <1>2, <2>2 DEF Calls
  <2>5. inbox \subseteq 1 .. calls + 1 /\ calls + 1 \in 0 .. MaxCalls + 1 /\ calls + 1 \in 1 .. calls + 1
    BY <1>0, <1>2 DEF TypeOK
  <2>6. TypeOK' /\ Shapes'
    BY <1>0, <1>1, <2>2, <2>3, <2>4, <2>5 DEF TypeOK, Shapes, Callers
  <2>7. stop # "write"
    BY <1>0, <2>1 DEF SlotOwned
  <2>8. SlotOwned'
    BY <1>0, <1>1, <1>2, <2>2, <2>3, <2>4, <2>7 DEF SlotOwned
  <2>9. BoxIsForCall' /\ RoomForShutdown'
    BY <1>1, <1>2, <2>2 DEF BoxIsForCall, RoomForShutdown
  <2> QED
    BY <1>0, <1>1, <2>6, <2>8, <2>9 DEF ProcessInd, ExitOrdered, FailureKills, AnswerMatches, Alive
<1>4. CASE ~ (MayRegister("caller") /\ ~ cancelled)
  <2>1. /\ UNCHANGED <<pending, box, calls>>
        /\ caller' = [caller EXCEPT !.pc = IF Open THEN "ended" ELSE "refused"]
    BY <1>4 DEF BeginCall, Refuse
  <2>2. caller' \in Callers /\ caller'.pc \in {"ended", "refused"} /\ caller'.call = caller.call
    BY <1>2, <2>1 DEF Callers
  <2>3. TypeOK' /\ Shapes'
    BY <1>0, <1>1, <2>1, <2>2 DEF TypeOK, Shapes
  <2>4. SlotOwned' /\ BoxIsForCall'
    BY <1>0, <1>1, <1>2, <2>1, <2>2 DEF SlotOwned, BoxIsForCall
  <2> QED
    BY <1>0, <1>1, <2>1, <2>3, <2>4
       DEF ProcessInd, ExitOrdered, FailureKills, AnswerMatches, RoomForShutdown, Alive
<1> QED
  BY <1>3, <1>4

(* The caller goes on or ends; its call, if it had one, is cleared from the
   slot, and a call of Stop is not. *)
CallerMoves ==
    /\ caller' \in Callers /\ caller'.call = caller.call
    /\ \/ caller'.pc \notin {"write", "await"} /\ (pending' = pending \/ Clear(caller.call))
          /\ (caller.pc \in {"write", "await"} => Clear(caller.call))
       \/ caller.pc = "write" /\ caller'.pc = "await" /\ pending' = pending

(* Such a move keeps the slot and the channel with their owners. *)
LEMMA MoveKeepsSlot ==
    ASSUME Shapes, SlotOwned, BoxIsForCall, CallerMoves, UNCHANGED <<stop, stopping, calls, box>>
    PROVE  pending' \in {pending, None} /\ SlotOwned' /\ BoxIsForCall'
<1>1. pending' \in {pending, None}
  BY DEF CallerMoves, Clear
<1>2. BoxIsForCall'
  BY DEF CallerMoves, BoxIsForCall
<1>3. pending' # None => pending' = pending
  BY <1>1
<1>4. pending' # None /\ pending.owner = "caller" => caller'.pc \in {"write", "await"}
  BY <1>3 DEF CallerMoves, Clear, SlotOwned
<1>5. stop = "write" => pending' = pending
  BY DEF CallerMoves, Clear, SlotOwned
<1>6. SlotOwned'
  BY <1>3, <1>4, <1>5 DEF SlotOwned, CallerMoves
<1> QED
  BY <1>1, <1>2, <1>6

(* The other steps of the caller: an answer in its channel is to its call. *)
LEMMA CallerStep ==
    ASSUME ProcessInd, Start \/ ResolveFails \/ WriteRequest \/ Receive \/ Woken \/ GiveUp
    PROVE  ProcessInd'
<1>0. TypeOK /\ Shapes /\ SlotOwned /\ BoxIsForCall /\ ExitOrdered /\ FailureKills /\ RoomForShutdown /\ AnswerMatches
  BY DEF ProcessInd
<1>1. UNCHANGED <<proc, stdin, stdout, odd, stopping, reader, waiter, cancelled, stop, calls, box>>
  BY DEF Start, ResolveFails, WriteRequest, Receive, Woken, GiveUp, Quiet, adapter
<1>2. caller \in Callers
  BY <1>0 DEF Shapes
<1>3. Refuse => caller' \in Callers /\ caller'.call = caller.call /\ caller'.pc \in {"ended", "refused"}
  BY <1>2 DEF Refuse, Callers
<1>4. GoOn => caller' \in Callers /\ caller'.call = caller.call /\ caller'.pc = "next"
  BY <1>2 DEF GoOn, Callers
<1>5. CallerMoves
  <2>1. CASE Start
    <3>1. /\ pending' = pending /\ caller.pc = "starting"
          /\ Refuse \/ GoOn \/ caller' = [caller EXCEPT !.pc = "gone"]
      BY <2>1 DEF Start
    <3>2. caller' = [caller EXCEPT !.pc = "gone"] =>
            caller' \in Callers /\ caller'.call = caller.call /\ caller'.pc = "gone"
      BY <1>2 DEF Callers
    <3> QED
      BY <1>3, <1>4, <3>1, <3>2 DEF CallerMoves
  <2>2. CASE ResolveFails
    BY <1>3, <2>2 DEF ResolveFails, CallerMoves
  <2>3. CASE WriteRequest
    <3>1. caller' = [caller EXCEPT !.pc = "await"] =>
            caller' \in Callers /\ caller'.call = caller.call /\ caller'.pc = "await"
      BY <1>2 DEF Callers
    <3> QED
      BY <1>3, <2>3, <3>1 DEF WriteRequest, CallerMoves
  <2>4. CASE Receive
    <3>1. /\ Clear(caller.call)
          /\ \/ Refuse \/ GoOn
             \/ caller' = [caller EXCEPT !.pc = "next",
                                         !.step = IF @ <= Len(Handshake) THEN @ + 1 ELSE @]
      BY <2>4 DEF Receive
    <3>2. ASSUME caller' = [caller EXCEPT !.pc = "next",
                                          !.step = IF @ <= Len(Handshake) THEN @ + 1 ELSE @]
          PROVE  caller' \in Callers /\ caller'.call = caller.call /\ caller'.pc = "next"
      <4> DEFINE step == IF caller.step <= Len(Handshake) THEN caller.step + 1 ELSE caller.step
      <4>1. caller.step \in Nat /\ caller.call \in Nat
        BY <1>2 DEF Callers
      <4>2. step \in Nat
        BY <4>1
      <4>3. caller' = [pc |-> "next", step |-> step, call |-> caller.call]
        BY <1>2, <3>2 DEF Callers
      <4> HIDE DEF step
      <4> QED
        BY <4>1, <4>2, <4>3 DEF Callers
    <3> QED
      BY <1>3, <1>4, <3>1, <3>2 DEF CallerMoves
  <2>5. CASE Woken \/ GiveUp
    BY <1>3, <1>4, <2>5 DEF Woken, GiveUp, CallerMoves
  <2> QED
    BY <2>1, <2>2, <2>3, <2>4, <2>5
<1>6. pending' \in {pending, None} /\ SlotOwned' /\ BoxIsForCall'
  BY <1>0, <1>1, <1>5, MoveKeepsSlot
<1>7. NoFailure \/ \E code \in Failures : FailWith(code)
  BY DEF Start, ResolveFails, WriteRequest, Receive, Woken, GiveUp, NoFailure, Failures
<1>8. inbox' \subseteq 1 .. calls
  <2>1. caller.pc = "write" => caller.call \in 1 .. calls
    BY <1>0, <1>2 DEF SlotOwned, TypeOK
  <2>2. inbox' = inbox \/ (caller.pc = "write" /\ inbox' = inbox \cup {caller.call})
    BY DEF Start, ResolveFails, WriteRequest, Receive, Woken, GiveUp, Quiet, adapter
  <2> QED
    BY <1>0, <2>1, <2>2 DEF TypeOK
<1>9. TypeOK' /\ Shapes'
  BY <1>0, <1>1, <1>5, <1>6, <1>7, <1>8, FailedStep DEF TypeOK, Shapes, CallerMoves, Callers
<1>10. AnswerMatches'
  <2>1. got' = got \/ (caller.pc = "await" /\ box # None /\ got' = got \cup {<<caller.call, box.id>>})
    BY DEF Start, ResolveFails, WriteRequest, Receive, Woken, GiveUp
  <2> QED
    BY <1>0, <2>1 DEF AnswerMatches, BoxIsForCall
<1>11. ExitOrdered' /\ FailureKills'
  BY <1>0, <1>1, <1>7, FailedStep DEF ExitOrdered, Alive
<1>12. RoomForShutdown'
  BY <1>0, <1>1 DEF RoomForShutdown
<1> QED
  BY <1>6, <1>9, <1>10, <1>11, <1>12 DEF ProcessInd

(* The supervisor, and the steps of Stop that register nothing. *)
LEMMA StopStep ==
    ASSUME ProcessInd,
           Cancel \/ Notice \/ StopBegin \/ ShutdownOver \/ CloseStdin \/ Exited \/ Escalate
    PROVE  ProcessInd'
<1>0. TypeOK /\ Shapes /\ SlotOwned /\ BoxIsForCall /\ ExitOrdered /\ FailureKills /\ RoomForShutdown /\ AnswerMatches
  BY DEF ProcessInd
<1>1. UNCHANGED <<proc, inbox, stdout, odd, box, reader, waiter, caller, got, failure, calls>>
  BY DEF Cancel, Notice, StopBegin, ShutdownOver, CloseStdin, Exited, Escalate, Others, adapter
<1>2. /\ stdin' \in {"open", "closed"} /\ signals \subseteq signals' /\ signals' \subseteq {"interrupt", "kill"}
      /\ stop' \in {"none", "noticed", "ask", "write", "asked", "close", "wait", "interrupted", "killed",
                    "stopped", "timeout"}
      /\ stop' = "write" => stop = "write" /\ pending' = pending
      /\ stop' \in {"none", "noticed", "ask"} => stop \in {"none", "ask"} \/ stop' = stop
      /\ stop' = "ask" => stopping'
      /\ stop' = "stopped" => stop = "stopped" \/ waiter = "done"
      /\ stopping => stopping'
      /\ pending' \in {pending, None}
  BY <1>0 DEF Cancel, Notice, StopBegin, ShutdownOver, CloseStdin, Exited, Escalate, LastSignal, TypeOK, SlotOwned
<1>3. TypeOK' /\ Shapes'
  BY <1>0, <1>1, <1>2 DEF TypeOK, Shapes
<1>4. SlotOwned'
  BY <1>0, <1>1, <1>2 DEF SlotOwned
<1>5. ExitOrdered' /\ FailureKills'
  BY <1>0, <1>1, <1>2 DEF ExitOrdered, FailureKills, Alive
<1>6. BoxIsForCall' /\ AnswerMatches' /\ RoomForShutdown'
  BY <1>0, <1>1, <1>2 DEF BoxIsForCall, AnswerMatches, RoomForShutdown
<1> QED
  BY <1>3, <1>4, <1>5, <1>6 DEF ProcessInd

(* Stop registers its request only in a free slot, once. *)
LEMMA AskStep ==
    ASSUME ProcessInd, AskShutdown
    PROVE  ProcessInd'
<1>0. TypeOK /\ Shapes /\ SlotOwned /\ BoxIsForCall /\ ExitOrdered /\ FailureKills /\ RoomForShutdown /\ AnswerMatches
  BY DEF ProcessInd
<1>1. UNCHANGED <<proc, inbox, stdout, odd, box, reader, waiter, caller, got, failure, signals, stdin, stopping>>
  BY DEF AskShutdown, Others, adapter
<1>2. /\ calls \in Nat /\ MaxCalls \in Nat /\ calls <= MaxCalls /\ stopping /\ caller.call \in 0 .. calls
  BY <1>0, ProcessAssumption DEF TypeOK, AskShutdown, RoomForShutdown, SlotOwned
<1>3. CASE MayRegister("stop")
  <2>1. /\ pending' = [id |-> calls + 1, owner |-> "stop", delivered |-> FALSE]
        /\ calls' = calls + 1 /\ stop' = "write"
    BY <1>3 DEF AskShutdown, Register, Call
  <2>2. pending' \in Calls /\ pending'.id = calls + 1 /\ pending'.owner = "stop"
    BY <1>2, <2>1 DEF Calls
  <2>3. inbox \subseteq 1 .. calls + 1 /\ calls + 1 \in 0 .. MaxCalls + 1 /\ calls + 1 \in 1 .. calls + 1
    BY <1>0, <1>2 DEF TypeOK
  <2>4. TypeOK' /\ Shapes'
    BY <1>0, <1>1, <2>1, <2>2, <2>3 DEF TypeOK, Shapes
  <2>5. caller.call \in 0 .. calls + 1 /\ calls + 1 # caller.call
    BY <1>2
  <2>6. SlotOwned'
    BY <1>0, <1>1, <1>2, <2>1, <2>2, <2>3, <2>5 DEF SlotOwned
  <2> QED
    BY <1>0, <1>1, <2>1, <2>4, <2>6
       DEF ProcessInd, ExitOrdered, FailureKills, AnswerMatches, BoxIsForCall, RoomForShutdown, Alive
<1>4. CASE ~ MayRegister("stop")
  <2>1. UNCHANGED <<pending, calls>> /\ stop' = "close"
    BY <1>4 DEF AskShutdown
  <2>2. TypeOK' /\ Shapes'
    BY <1>0, <1>1, <2>1 DEF TypeOK, Shapes
  <2> QED
    BY <1>0, <1>1, <2>1, <2>2
       DEF ProcessInd, SlotOwned, ExitOrdered, FailureKills, AnswerMatches, BoxIsForCall, RoomForShutdown, Alive
<1> QED
  BY <1>3, <1>4

(* Stop writes the request it has registered, or finds the pipe broken. *)
LEMMA WriteShutdownStep ==
    ASSUME ProcessInd, WriteShutdown
    PROVE  ProcessInd'
<1>0. TypeOK /\ Shapes /\ SlotOwned /\ BoxIsForCall /\ ExitOrdered /\ FailureKills /\ RoomForShutdown /\ AnswerMatches
  BY DEF ProcessInd
<1>1. UNCHANGED <<proc, stdout, odd, box, reader, waiter, caller, got, stdin, stopping, calls>>
  BY DEF WriteShutdown
<1>2. pending.id \in 1 .. calls
  BY <1>0 DEF SlotOwned, WriteShutdown
<1>3. /\ stop' \in {"asked", "close"} /\ pending' \in {pending, None}
      /\ inbox' \subseteq inbox \cup {pending.id}
  BY DEF WriteShutdown
<1>4. NoFailure \/ \E code \in Failures : FailWith(code)
  BY DEF WriteShutdown, NoFailure, Failures
<1>5. TypeOK' /\ Shapes'
  BY <1>0, <1>1, <1>2, <1>3, <1>4, FailedStep DEF TypeOK, Shapes
<1>6. SlotOwned' /\ BoxIsForCall' /\ RoomForShutdown' /\ AnswerMatches'
  BY <1>0, <1>1, <1>3 DEF SlotOwned, BoxIsForCall, RoomForShutdown, AnswerMatches
<1>7. ExitOrdered' /\ FailureKills'
  BY <1>0, <1>1, <1>3, <1>4, FailedStep DEF ExitOrdered, Alive
<1> QED
  BY <1>5, <1>6, <1>7 DEF ProcessInd

-----------------------------------------------------------------------------
(* The inductive invariant holds at any time, whatever the adapter writes
   (adapters/process.go). *)
THEOREM ProcessIndHolds == Spec => []ProcessInd
<1>1. Init => ProcessInd
  <2> SUFFICES ASSUME Init PROVE ProcessInd
    OBVIOUS
  <2>1. TypeOK
    BY ProcessAssumption DEF Init, TypeOK
  <2>2. Shapes
    BY DEF Init, Shapes, Callers
  <2>3. SlotOwned /\ BoxIsForCall /\ ExitOrdered /\ FailureKills /\ AnswerMatches
    BY DEF Init, SlotOwned, BoxIsForCall, ExitOrdered, FailureKills, AnswerMatches, Alive
  <2>4. RoomForShutdown
    BY ProcessAssumption DEF Init, RoomForShutdown
  <2> QED
    BY <2>1, <2>2, <2>3, <2>4 DEF ProcessInd
<1>2. ProcessInd /\ [Next]_vars => ProcessInd'
  <2> SUFFICES ASSUME ProcessInd, [Next]_vars PROVE ProcessInd'
    OBVIOUS
  <2>1. CASE UNCHANGED vars
    BY <2>1 DEF vars, ProcessInd, TypeOK, Shapes, SlotOwned, BoxIsForCall, ExitOrdered, FailureKills,
                RoomForShutdown, AnswerMatches, Alive
  <2> QED
    BY <2>1, AdapterStep, DispatchStep, ExitStep, BeginCallStep, CallerStep, StopStep, AskStep,
       WriteShutdownStep DEF Next
<1> QED
  BY <1>1, <1>2, PTL DEF Spec

(* Whatever the adapter writes and whenever it exits, a call that succeeds
   returns the answer to its own request, an exit that closed done is
   explained, and a stop that succeeded left no process: the invariant of the
   run, for any number of calls and of lines in the pipe. *)
THEOREM ProcessSafe == Spec => []ProcessInv
<1>1. ProcessInd => ProcessInv
  BY DEF ProcessInd, ProcessInv, ExitOrdered, ExitExplained, StoppedIsGone
<1> QED
  BY <1>1, ProcessIndHolds, PTL

(* Process.fail: a process with a recorded failure has been sent a kill, so
   that its exit does not depend on the adapter's good will. *)
THEOREM FailedIsKilled == Spec => []FailureKills
<1>1. ProcessInd => FailureKills
  BY DEF ProcessInd
<1> QED
  BY <1>1, ProcessIndHolds, PTL
=============================================================================
