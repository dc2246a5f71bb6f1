--------------------------- MODULE ApprovalsProofs ---------------------------
(***************************************************************************)
(* Proofs of what module Approvals says of decisions, for any number of    *)
(* operations, commands and process ends.                                  *)
(*                                                                         *)
(* A decision is kept in five places besides its durable record: in the    *)
(* Run (once), in the recovered decisions, in the command that delivers    *)
(* it, in the channel of the waiting call and in the call itself. The      *)
(* inductive invariant says that each of them agrees with the record, and  *)
(* the argument is that a record, once decided, does not change. That      *)
(* nobody is asked again rests on a run starting without pending           *)
(* approvals: PrepareDriver then finds the decision before it asks.        *)
(***************************************************************************)
EXTENDS Approvals, TLAPS

-----------------------------------------------------------------------------
(* The inductive invariant. *)

Command == [kind : {"none", "answer", "mode"},
            at : {"idle", "decide", "deliver", "card", "store", "load", "claim",
                  "drain", "persist"},
            op : Ops \cup {NoOp}, to : Answers \cup Modes \cup {"none"},
            prev : Modes \cup {"none"}, todo : SUBSET Ops, bad : BOOLEAN]

\* A command has the arguments that its stage uses.
CommandOK ==
  /\ cmd \in Command
  /\ cmd.at \in {"decide", "deliver", "card", "store", "load", "claim"} => cmd.op \in Ops
  /\ cmd.at \in {"card", "store", "load", "claim"} => cmd.kind = "answer"
  /\ cmd.at \in {"drain", "persist"} => cmd.kind = "mode"
  /\ cmd.at \in {"decide", "deliver"} => cmd.kind # "none"
  /\ cmd.kind = "answer" => cmd.to \in Answers
  /\ cmd.kind = "mode" => cmd.to \in Modes /\ cmd.prev \in Modes

\* Every copy of a decision says what the record says.
CopiesAgree ==
  /\ \A op \in Ops :
       /\ op \in once => durable[op] = "approved"
       /\ recovered[op] # "none" => durable[op] = recovered[op]
       /\ call[op] = "ready" => durable[op] = "approved" \/ Scope[op] \in granted
       /\ call[op] = "denied" => durable[op] = "rejected"
  /\ cmd.at = "deliver" => durable[cmd.op] = decisionOf(Mode)
  /\ cmd.at = "store" => durable[cmd.op] = decisionOf(cmd.to)

\* An approval can be answered only while its call waits, and a call that was
\* decided before the run started never gets that far.
WaitsForAnswer ==
  \A op \in Ops :
    /\ live[op] # "none" => call[op] = "waiting"
    /\ op \in known => /\ Decided(op) /\ op \notin asked
                       /\ call[op] \in {"new", "ready", "denied", "done"}

ApprovalInv ==
  /\ TypeOK /\ CommandOK /\ CopiesAgree /\ WaitsForAnswer
  /\ OutcomeWasDecided /\ HeardIsRecorded

\* Nothing is asked and nothing decided at the start.
LEMMA InitApprovalInv == Init => ApprovalInv
<1> SUFFICES ASSUME Init
             PROVE  ApprovalInv
  OBVIOUS
<1>1. TypeOK
  BY ConfiguredAssumption DEF Init, TypeOK, Idle
<1>2. CommandOK
  BY DEF Init, CommandOK, Command, Idle
<1>3. CopiesAgree /\ WaitsForAnswer
  BY DEF Init, CopiesAgree, WaitsForAnswer, Idle
<1>4. OutcomeWasDecided /\ HeardIsRecorded
  BY DEF Init, OutcomeWasDecided, HeardIsRecorded
<1> QED
  BY <1>1, <1>2, <1>3, <1>4 DEF ApprovalInv

-----------------------------------------------------------------------------
(* Every step keeps the invariant. *)

\* The types.
LEMMA StepTypeOK == ApprovalInv /\ [Next]_vars => TypeOK'
<1> SUFFICES ASSUME ApprovalInv, [Next]_vars
             PROVE  TypeOK'
  OBVIOUS
<1> USE NoOpAssumption DEF ApprovalInv
<1>1. ASSUME NEW op \in Ops, PrepareDriver(op)
      PROVE  TypeOK'
  BY <1>1 DEF PrepareDriver, Prepared, Goto, requestApproval, Consumes,
     waiting, bounds, history, TypeOK, CommandOK, Command, Modes, Answers,
     Scopes
<1>2. ASSUME NEW op \in Ops, ReadMode(op)
      PROVE  TypeOK'
  BY <1>2 DEF ReadMode, Goto, stored, memory, waiting, bounds, history,
     TypeOK, CommandOK, Command, Modes, Answers, Scopes
<1>3. ASSUME NEW op \in Ops, DecidesAlone(op)
      PROVE  TypeOK'
  BY <1>3 DEF DecidesAlone, Follows, Verdicts, ResolveApproval, decideApproval,
     decisionOf, GrantSession, Goto, waiting, bounds, TypeOK, CommandOK,
     Command, Modes, Answers, Scopes
<1>4. ASSUME NEW op \in Ops, AloneFails(op)
      PROVE  TypeOK'
  BY <1>4 DEF AloneFails, Goto, stored, memory, waiting, bounds, history,
     TypeOK, CommandOK, Command, Modes, Answers, Scopes
<1>5. ASSUME NEW op \in Ops, Register(op)
      PROVE  TypeOK'
  BY <1>5 DEF Register, Goto, waiting, stored, memory, bounds, history,
     TypeOK, CommandOK, Command, Modes, Answers, Scopes
<1>6. ASSUME NEW op \in Ops, Hear(op)
      PROVE  TypeOK'
  BY <1>6 DEF Hear, Follows, waiting, Goto, finishLiveApproval, stored, memory,
     bounds, history, TypeOK, CommandOK, Command, Modes, Answers, Scopes
<1>7. ASSUME NEW op \in Ops, Leave(op)
      PROVE  TypeOK'
  BY <1>7 DEF Leave, waiting, Goto, finishLiveApproval, stored, memory,
     bounds, history, TypeOK, CommandOK, Command, Modes, Answers, Scopes
<1>8. ASSUME NEW op \in Ops, Settle(op)
      PROVE  TypeOK'
  BY <1>8 DEF Settle, Goto, waiting, bounds, history, TypeOK, CommandOK,
     Command, Modes, Answers, Scopes
<1>9. ASSUME TurnEnds
      PROVE  TypeOK'
  BY <1>9 DEF TurnEnds, memory, waiting, bounds, history, TypeOK, CommandOK,
     Command, Modes, Answers, Scopes
<1>10. ASSUME Decide
      PROVE  TypeOK'
  BY <1>10 DEF Decide, ResolveApproval, decideApproval, decisionOf,
     GrantSession, Mode, At, waiting, bounds, TypeOK, CommandOK, Command,
     Modes, Answers, Scopes
<1>11. ASSUME DecideFails
      PROVE  TypeOK'
  BY <1>11 DEF DecideFails, Returned, Idle, stored, memory, bounds, history,
     TypeOK, CommandOK, Command, Modes, Answers, Scopes
<1>12. ASSUME Resolved
      PROVE  TypeOK'
  BY <1>12 DEF Resolved, Deliver, waiting, Mode, Returned, Idle, stored,
     memory, bounds, history, TypeOK, CommandOK, Command, Modes, Answers,
     Scopes
<1>13. ASSUME CardDecides
      PROVE  TypeOK'
  BY <1>13 DEF CardDecides, decideApproval, decisionOf, At, memory, waiting,
     bounds, TypeOK, CommandOK, Command, Modes, Answers, Scopes
<1>14. ASSUME CardFails
      PROVE  TypeOK'
  BY <1>14 DEF CardFails, Idle, stored, memory, waiting, bounds, history,
     TypeOK, CommandOK, Command, Modes, Answers, Scopes
<1>15. ASSUME CardStores
      PROVE  TypeOK'
  BY <1>15 DEF CardStores, GrantSession, decisionOf, At, stored, waiting,
     bounds, TypeOK, CommandOK, Command, Modes, Answers, Scopes
<1>16. ASSUME CardLoads
      PROVE  TypeOK'
  BY <1>16 DEF CardLoads, Idle, At, stored, waiting, bounds, history, TypeOK,
     CommandOK, Command, Modes, Answers, Scopes
<1>17. ASSUME CardClaims
      PROVE  TypeOK'
  BY <1>17 DEF CardClaims, Started, Decided, Idle, bounds, TypeOK, CommandOK,
     Command, Modes, Answers, Scopes
<1>18. ASSUME ClaimFails \/ LoadFails \/ Discontinue
      PROVE  TypeOK'
  BY <1>18 DEF ClaimFails, LoadFails, Discontinue, Idle, stored, memory, waiting, bounds, history,
     TypeOK, CommandOK, Command, Modes, Answers, Scopes
<1>19. ASSUME Drain
      PROVE  TypeOK'
  <2>1. PICK op \in cmd.todo :
          /\ \/ live' = [live EXCEPT ![op] = "resolving"]
             \/ live' = live
          /\ cmd'.at \in {"decide", "drain"}
    BY <1>19 DEF Drain, CommandOK, Command
  <2> QED
    BY <1>19, <2>1 DEF Drain, stored, memory, history, TypeOK, Command, CommandOK
<1>20. ASSUME Drained
      PROVE  TypeOK'
  BY <1>20 DEF Drained, Idle, At, stored, waiting, bounds, history, TypeOK,
     CommandOK, Command, Modes, Answers, Scopes
<1>21. ASSUME PersistMode
      PROVE  TypeOK'
  BY <1>21 DEF PersistMode, Idle, waiting, bounds, history, TypeOK,
     CommandOK, Command, Modes, Answers, Scopes
<1>22. ASSUME EngineCancels
      PROVE  TypeOK'
  BY <1>22 DEF EngineCancels, stored, memory, waiting, bounds, history,
     TypeOK, CommandOK, Command, Modes, Answers, Scopes
<1>23. ASSUME NEW op \in Ops, NEW m \in Answers, Answer(op, m)
      PROVE  TypeOK'
  <2>1. /\ live' = live \/ live' = [live EXCEPT ![op] = "resolving"]
        /\ cmd'.at \in {"decide", "card"}
    BY <1>23 DEF Answer, Idle
  <2> QED
    BY <1>23, <2>1 DEF Answer, stored, memory, history, TypeOK
<1>24. ASSUME NEW m \in Modes, SetApprovalMode(m)
      PROVE  TypeOK'
  BY <1>24 DEF SetApprovalMode, Sends, Idle, stored, waiting, history,
     TypeOK, CommandOK, Command, Modes, Answers, Scopes
<1>25. ASSUME CancelActive
      PROVE  TypeOK'
  BY <1>25 DEF CancelActive, Sends, Idle, stored, memory, waiting, history,
     TypeOK, CommandOK, Command, Modes, Answers, Scopes
<1>26. ASSUME NEW op \in Ops, Expire(op)
      PROVE  TypeOK'
  BY <1>26 DEF Expire, memory, waiting, bounds, history, TypeOK, CommandOK,
     Command, Modes, Answers, Scopes
<1>27. ASSUME Shutdown
      PROVE  TypeOK'
  BY <1>27 DEF Shutdown, stored, memory, waiting, bounds, history, TypeOK,
     CommandOK, Command, Modes, Answers, Scopes
<1>28. ASSUME Crash
      PROVE  TypeOK'
  BY <1>28 DEF Crash, Started, Decided, Idle, TypeOK, CommandOK, Command,
     Modes, Answers, Scopes
<1>29. CASE UNCHANGED vars
  BY <1>29 DEF vars, stored, memory, waiting, bounds, history, TypeOK
<1> QED
  BY <1>1, <1>2, <1>3, <1>4, <1>5, <1>6, <1>7, <1>8, <1>9, <1>10, <1>11,
     <1>12, <1>13, <1>14, <1>15, <1>16, <1>17, <1>18, <1>19, <1>20, <1>21,
     <1>22, <1>23, <1>24, <1>25, <1>26, <1>27, <1>28, <1>29
     DEF Next, Progress, CallStep, CommandStep

\* After resolveLiveApproval a command is over, or goes on draining.
LEMMA AfterAnswer ==
  ASSUME ApprovalInv, NEW bad \in BOOLEAN, Returned(bad),
         cmd.at \in {"decide", "deliver"}
  PROVE  CommandOK'
<1>1. cmd \in Command /\ NoOp \notin Ops
  BY NoOpAssumption DEF ApprovalInv, CommandOK
<1>2. CASE cmd' = Idle
  <2>1. cmd' \in Command
    BY <1>2 DEF Idle, Command
  <2> QED
    BY <1>2, <2>1 DEF Idle, CommandOK
<1>3. CASE cmd.kind # "answer" /\ cmd' = [cmd EXCEPT !.at = "drain", !.op = NoOp, !.bad = @ \/ bad]
  <2>1. cmd.kind = "mode" /\ cmd.to \in Modes /\ cmd.prev \in Modes
    BY <1>1, <1>3 DEF Command, ApprovalInv, CommandOK
  <2>2. cmd.bad \in BOOLEAN /\ (cmd.bad \/ bad) \in BOOLEAN
    BY <1>1 DEF Command
  <2>3. cmd' \in Command
    BY <1>1, <1>3, <2>2 DEF Command
  <2>4. /\ cmd'.at = "drain" /\ cmd'.kind = cmd.kind
        /\ cmd'.to = cmd.to /\ cmd'.prev = cmd.prev
    BY <1>1, <1>3 DEF Command
  <2> QED
    BY <2>1, <2>3, <2>4 DEF CommandOK
<1> QED
  BY <1>2, <1>3 DEF Returned

\* The arguments of the command.
LEMMA StepCommandOK == ApprovalInv /\ [Next]_vars => CommandOK'
<1> SUFFICES ASSUME ApprovalInv, [Next]_vars
             PROVE  CommandOK'
  OBVIOUS
<1> USE NoOpAssumption DEF ApprovalInv
<1>1. ASSUME Decide
      PROVE  CommandOK'
  BY <1>1 DEF Decide, ResolveApproval, decideApproval, decisionOf,
     GrantSession, Mode, At, TypeOK, CommandOK, Command, Modes, Answers
<1>2. ASSUME DecideFails
      PROVE  CommandOK'
  BY <1>2, AfterAnswer DEF DecideFails
<1>3. ASSUME Resolved
      PROVE  CommandOK'
  BY <1>3, AfterAnswer DEF Resolved
<1>4. ASSUME CardDecides
      PROVE  CommandOK'
  BY <1>4 DEF CardDecides, decideApproval, decisionOf, At, TypeOK, CommandOK,
     Command, Modes, Answers
<1>5. ASSUME CardFails
      PROVE  CommandOK'
  BY <1>5 DEF CardFails, Idle, TypeOK, CommandOK, Command, Modes, Answers
<1>6. ASSUME CardStores
      PROVE  CommandOK'
  BY <1>6 DEF CardStores, GrantSession, decisionOf, At, TypeOK, CommandOK,
     Command, Modes, Answers
<1>7. ASSUME CardLoads
      PROVE  CommandOK'
  <2>1. cmd' = Idle \/ cmd' = [cmd EXCEPT !.at = "claim"]
    BY <1>7 DEF CardLoads, At
  <2>2. CASE cmd' = Idle
    BY <1>7, <2>2 DEF CardLoads, Idle, stored, history, CommandOK, Command, Modes,
       Answers
  <2>3. CASE cmd' = [cmd EXCEPT !.at = "claim"]
    BY <1>7, <2>3 DEF CardLoads, stored, history, CommandOK, Command, Modes, Answers
  <2> QED
    BY <2>1, <2>2, <2>3
<1>8. ASSUME CardClaims
      PROVE  CommandOK'
  BY <1>8 DEF CardClaims, Started, Decided, Idle, TypeOK, CommandOK, Command,
     Modes, Answers
<1>9. ASSUME ClaimFails \/ LoadFails \/ Discontinue
      PROVE  CommandOK'
  <2>1. cmd' = Idle
    BY <1>9 DEF ClaimFails, LoadFails, Discontinue
  <2> QED
    BY <2>1 DEF Idle, CommandOK, Command
<1>10. ASSUME Drain
      PROVE  CommandOK'
  <2>1. PICK op \in cmd.todo :
          \/ cmd' = [cmd EXCEPT !.at = "decide", !.op = op, !.todo = @ \ {op}]
          \/ cmd' = [cmd EXCEPT !.todo = @ \ {op}]
    BY <1>10 DEF Drain
  <2>2. CASE cmd' = [cmd EXCEPT !.at = "decide", !.op = op, !.todo = @ \ {op}]
    BY <1>10, <2>2 DEF Drain, stored, memory, history, CommandOK, Command, Modes,
       Answers
  <2>3. CASE cmd' = [cmd EXCEPT !.todo = @ \ {op}]
    BY <1>10, <2>3 DEF Drain, stored, memory, history, CommandOK, Command, Modes,
       Answers
  <2> QED
    BY <2>1, <2>2, <2>3
<1>11. ASSUME Drained
      PROVE  CommandOK'
  <2>1. cmd' = Idle \/ cmd' = [cmd EXCEPT !.at = "persist"]
    BY <1>11 DEF Drained, At
  <2>2. CASE cmd' = Idle
    BY <1>11, <2>2 DEF Drained, Idle, stored, history, CommandOK, Command, Modes,
       Answers
  <2>3. CASE cmd' = [cmd EXCEPT !.at = "persist"]
    BY <1>11, <2>3 DEF Drained, stored, history, CommandOK, Command, Modes, Answers
  <2> QED
    BY <2>1, <2>2, <2>3
<1>12. ASSUME PersistMode
      PROVE  CommandOK'
  BY <1>12 DEF PersistMode, Idle, TypeOK, CommandOK, Command, Modes, Answers
<1>13. ASSUME NEW op \in Ops, NEW m \in Answers, Answer(op, m)
      PROVE  CommandOK'
  <2>1. \/ cmd' = [Idle EXCEPT !.kind = "answer", !.at = "decide", !.op = op, !.to = m]
        \/ cmd' = [Idle EXCEPT !.kind = "answer", !.at = "card", !.op = op, !.to = m]
    BY <1>13 DEF Answer
  <2>2. PICK s \in {"decide", "card"} :
          cmd' = [kind |-> "answer", at |-> s, op |-> op, to |-> m,
                  prev |-> "none", todo |-> {}, bad |-> FALSE]
    BY <2>1 DEF Idle
  <2>3. cmd' \in Command
    BY <2>2 DEF Command
  <2> QED
    BY <2>2, <2>3 DEF CommandOK
<1>14. ASSUME NEW m \in Modes, SetApprovalMode(m)
      PROVE  CommandOK'
  <2>1. PICK s \in {"drain", "persist"}, ops \in SUBSET Ops :
          cmd' = [kind |-> "mode", at |-> s, op |-> NoOp, to |-> m,
                  prev |-> mode, todo |-> ops, bad |-> FALSE]
    <3>1. CASE m = "yolo"
      <4>1. cmd' = [kind |-> "mode", at |-> "drain", op |-> NoOp, to |-> m, prev |-> mode,
                    todo |-> {op \in Ops : live[op] = "open"}, bad |-> FALSE]
        BY <1>14, <3>1 DEF SetApprovalMode, Idle
      <4> QED
        BY <4>1
    <3>2. CASE m # "yolo"
      <4>1. cmd' = [kind |-> "mode", at |-> "persist", op |-> NoOp, to |-> m, prev |-> mode,
                    todo |-> {}, bad |-> FALSE]
        BY <1>14, <3>2 DEF SetApprovalMode, Idle
      <4> QED
        BY <4>1
    <3> QED
      BY <3>1, <3>2
  <2>2. mode \in Modes
    BY DEF TypeOK
  <2>3. cmd' \in Command
    BY <2>1, <2>2 DEF Command
  <2> QED
    BY <2>1, <2>2, <2>3 DEF CommandOK
<1>15. ASSUME Crash
      PROVE  CommandOK'
  BY <1>15 DEF Crash, Started, Decided, Idle, TypeOK, CommandOK, Command,
     Modes, Answers
<1>16. ASSUME UNCHANGED <<cmd>>
      PROVE  CommandOK'
  BY <1>16 DEF CommandOK
<1>17. ASSUME NEW op \in Ops,
             PrepareDriver(op) \/ ReadMode(op) \/ DecidesAlone(op) \/
             AloneFails(op) \/ Register(op) \/ Hear(op) \/ Leave(op) \/
             Settle(op) \/ Expire(op)
      PROVE  CommandOK'
  BY <1>16, <1>17 DEF PrepareDriver, ReadMode, DecidesAlone, AloneFails,
     Register, Hear, Leave, Settle, Expire
<1>18. CASE TurnEnds \/ EngineCancels \/ CancelActive \/ Shutdown
  BY <1>16, <1>18 DEF TurnEnds, EngineCancels, CancelActive, Shutdown
<1>19. CASE UNCHANGED vars
  BY <1>16, <1>19 DEF vars
<1> QED
  BY <1>1, <1>2, <1>3, <1>4, <1>5, <1>6, <1>7, <1>8, <1>9, <1>10, <1>11,
     <1>12, <1>13, <1>14, <1>15, <1>16, <1>17, <1>18, <1>19
     DEF Next, Progress, CallStep, CommandStep

\* The copies of a decision: each is made from another one or with the record, and
\* a record that is decided stays as it is.
LEMMA StepCopiesAgree == ApprovalInv /\ [Next]_vars => CopiesAgree'
<1> SUFFICES ASSUME ApprovalInv, [Next]_vars
             PROVE  CopiesAgree'
  OBVIOUS
<1> USE NoOpAssumption DEF ApprovalInv
<1>1. ASSUME NEW op \in Ops, PrepareDriver(op)
      PROVE  CopiesAgree'
  BY <1>1 DEF PrepareDriver, Prepared, Goto, requestApproval, Consumes,
     history, TypeOK, CommandOK, CopiesAgree, HeardIsRecorded, Mode,
     decisionOf
<1>2. ASSUME NEW op \in Ops, ReadMode(op)
      PROVE  CopiesAgree'
  BY <1>2 DEF ReadMode, Goto, stored, memory, history, TypeOK, CommandOK,
     CopiesAgree, HeardIsRecorded, Mode, decisionOf
<1>3. ASSUME NEW op \in Ops, DecidesAlone(op)
      PROVE  CopiesAgree'
  BY <1>3 DEF DecidesAlone, Follows, Verdicts, ResolveApproval, decideApproval,
     decisionOf, GrantSession, Goto, TypeOK, CommandOK, CopiesAgree,
     HeardIsRecorded, Mode
<1>4. ASSUME NEW op \in Ops, AloneFails(op)
      PROVE  CopiesAgree'
  BY <1>4 DEF AloneFails, Goto, stored, memory, history, TypeOK, CommandOK,
     CopiesAgree, HeardIsRecorded, Mode, decisionOf
<1>5. ASSUME NEW op \in Ops, Register(op)
      PROVE  CopiesAgree'
  BY <1>5 DEF Register, Goto, stored, memory, history, TypeOK, CommandOK,
     CopiesAgree, HeardIsRecorded, Mode, decisionOf
<1>6. ASSUME NEW op \in Ops, Hear(op)
      PROVE  CopiesAgree'
  BY <1>6 DEF Hear, Follows, Goto, finishLiveApproval, stored, memory, history,
     TypeOK, CommandOK, CopiesAgree, HeardIsRecorded, Mode, decisionOf
<1>7. ASSUME NEW op \in Ops, Leave(op)
      PROVE  CopiesAgree'
  BY <1>7 DEF Leave, Goto, finishLiveApproval, stored, memory, history,
     TypeOK, CommandOK, CopiesAgree, HeardIsRecorded, Mode, decisionOf
<1>8. ASSUME NEW op \in Ops, Settle(op)
      PROVE  CopiesAgree'
  BY <1>8 DEF Settle, Goto, history, TypeOK, CommandOK, CopiesAgree,
     HeardIsRecorded, Mode, decisionOf
<1>9. ASSUME Decide
      PROVE  CopiesAgree'
  BY <1>9 DEF Decide, ResolveApproval, decideApproval, decisionOf,
     GrantSession, Mode, At, TypeOK, CommandOK, CopiesAgree, HeardIsRecorded
<1>10. ASSUME DecideFails
      PROVE  CopiesAgree'
  BY <1>10 DEF DecideFails, Returned, Idle, stored, memory, history, TypeOK,
     CommandOK, CopiesAgree, HeardIsRecorded, Mode, decisionOf
<1>11. ASSUME Resolved
      PROVE  CopiesAgree'
  BY <1>11 DEF Resolved, Deliver, Mode, Returned, Idle, stored, memory,
     history, TypeOK, CommandOK, CopiesAgree, HeardIsRecorded, decisionOf
<1>12. ASSUME CardDecides
      PROVE  CopiesAgree'
  BY <1>12 DEF CardDecides, decideApproval, decisionOf, At, memory, TypeOK,
     CommandOK, CopiesAgree, HeardIsRecorded, Mode
<1>13. ASSUME CardFails
      PROVE  CopiesAgree'
  BY <1>13 DEF CardFails, Idle, stored, memory, history, TypeOK, CommandOK,
     CopiesAgree, HeardIsRecorded, Mode, decisionOf
<1>14. ASSUME CardStores
      PROVE  CopiesAgree'
  BY <1>14 DEF CardStores, GrantSession, decisionOf, At, stored, TypeOK,
     CommandOK, CopiesAgree, HeardIsRecorded, Mode
<1>15. ASSUME CardLoads
      PROVE  CopiesAgree'
  <2>1. cmd' = Idle \/ cmd' = [cmd EXCEPT !.at = "claim"]
    BY <1>15 DEF CardLoads, At
  <2>2. CASE cmd' = Idle
    BY <1>15, <2>2 DEF CardLoads, Idle, stored, history, CommandOK, Command,
       CopiesAgree, Mode
  <2>3. CASE cmd' = [cmd EXCEPT !.at = "claim"]
    BY <1>15, <2>3 DEF CardLoads, stored, history, CommandOK, Command, CopiesAgree, Mode
  <2> QED
    BY <2>1, <2>2, <2>3
<1>16. ASSUME CardClaims
      PROVE  CopiesAgree'
  BY <1>16 DEF CardClaims, Started, Decided, Idle, TypeOK, CommandOK,
     CopiesAgree, HeardIsRecorded, Mode, decisionOf
<1>17. ASSUME ClaimFails \/ LoadFails \/ Discontinue
      PROVE  CopiesAgree'
  BY <1>17 DEF ClaimFails, LoadFails, Discontinue, Idle, stored, memory, history, TypeOK, CommandOK,
     CopiesAgree, HeardIsRecorded, Mode, decisionOf
<1>18. ASSUME Drain
      PROVE  CopiesAgree'
  <2>1. PICK op \in cmd.todo :
          \/ cmd' = [cmd EXCEPT !.at = "decide", !.op = op, !.todo = @ \ {op}]
          \/ cmd' = [cmd EXCEPT !.todo = @ \ {op}]
    BY <1>18 DEF Drain
  <2>2. CASE cmd' = [cmd EXCEPT !.at = "decide", !.op = op, !.todo = @ \ {op}]
    BY <1>18, <2>2 DEF Drain, stored, memory, history, CommandOK, Command,
       CopiesAgree, Mode
  <2>3. CASE cmd' = [cmd EXCEPT !.todo = @ \ {op}]
    BY <1>18, <2>3 DEF Drain, stored, memory, history, CommandOK, Command,
       CopiesAgree, Mode
  <2> QED
    BY <2>1, <2>2, <2>3
<1>19. ASSUME Drained
      PROVE  CopiesAgree'
  <2>1. cmd' = Idle \/ cmd' = [cmd EXCEPT !.at = "persist"]
    BY <1>19 DEF Drained, At
  <2>2. CASE cmd' = Idle
    BY <1>19, <2>2 DEF Drained, Idle, stored, history, CommandOK, Command,
       CopiesAgree, Mode
  <2>3. CASE cmd' = [cmd EXCEPT !.at = "persist"]
    BY <1>19, <2>3 DEF Drained, stored, history, CommandOK, Command, CopiesAgree, Mode
  <2> QED
    BY <2>1, <2>2, <2>3
<1>20. ASSUME PersistMode
      PROVE  CopiesAgree'
  BY <1>20 DEF PersistMode, Idle, history, TypeOK, CommandOK, CopiesAgree,
     HeardIsRecorded, Mode, decisionOf
<1>21. ASSUME NEW op \in Ops, NEW m \in Answers, Answer(op, m)
      PROVE  CopiesAgree'
  <2>1. PICK s \in {"decide", "card"} :
          cmd' = [Idle EXCEPT !.kind = "answer", !.at = s, !.op = op, !.to = m]
    BY <1>21 DEF Answer
  <2> QED
    BY <1>21, <2>1 DEF Answer, Idle, stored, memory, history, CommandOK, Command,
       CopiesAgree, Mode
<1>22. ASSUME NEW m \in Modes, SetApprovalMode(m)
      PROVE  CopiesAgree'
  BY <1>22 DEF SetApprovalMode, Sends, Idle, stored, history, TypeOK,
     CommandOK, CopiesAgree, HeardIsRecorded, Mode, decisionOf
<1>23. ASSUME Crash
      PROVE  CopiesAgree'
  BY <1>23 DEF Crash, Started, Decided, Idle, TypeOK, CommandOK, CopiesAgree,
     HeardIsRecorded, Mode, decisionOf
<1>24. ASSUME UNCHANGED <<durable, once, recovered, call, granted, cmd>>
      PROVE  CopiesAgree'
  BY <1>24 DEF CopiesAgree, Mode, decisionOf
<1>25. ASSUME NEW op \in Ops,
             Expire(op)
      PROVE  CopiesAgree'
  BY <1>24, <1>25 DEF Expire, memory, history
<1>26. CASE TurnEnds \/ EngineCancels \/ CancelActive \/ Shutdown
  BY <1>24, <1>26 DEF TurnEnds, memory, history, EngineCancels, stored,
     CancelActive, Shutdown
<1>27. CASE UNCHANGED vars
  BY <1>24, <1>27 DEF vars, stored, memory, history
<1> QED
  BY <1>1, <1>2, <1>3, <1>4, <1>5, <1>6, <1>7, <1>8, <1>9, <1>10, <1>11,
     <1>12, <1>13, <1>14, <1>15, <1>16, <1>17, <1>18, <1>19, <1>20, <1>21,
     <1>22, <1>23, <1>24, <1>25, <1>26, <1>27
     DEF Next, Progress, CallStep, CommandStep

\* The calls that wait, and those that were decided before.
LEMMA StepWaitsForAnswer == ApprovalInv /\ [Next]_vars => WaitsForAnswer'
<1> SUFFICES ASSUME ApprovalInv, [Next]_vars
             PROVE  WaitsForAnswer'
  OBVIOUS
<1> USE NoOpAssumption DEF ApprovalInv
<1>1. ASSUME NEW op \in Ops, PrepareDriver(op)
      PROVE  WaitsForAnswer'
  BY <1>1 DEF PrepareDriver, Prepared, Goto, requestApproval, Consumes,
     waiting, history, TypeOK, CommandOK, CopiesAgree, WaitsForAnswer,
     Decided
<1>2. ASSUME NEW op \in Ops, ReadMode(op)
      PROVE  WaitsForAnswer'
  BY <1>2 DEF ReadMode, Goto, stored, memory, waiting, history, TypeOK,
     CommandOK, CopiesAgree, WaitsForAnswer, Decided
<1>3. ASSUME NEW op \in Ops, DecidesAlone(op)
      PROVE  WaitsForAnswer'
  BY <1>3 DEF DecidesAlone, Follows, Verdicts, ResolveApproval, decideApproval,
     decisionOf, GrantSession, Goto, waiting, TypeOK, CommandOK, CopiesAgree,
     WaitsForAnswer, Decided
<1>4. ASSUME NEW op \in Ops, AloneFails(op)
      PROVE  WaitsForAnswer'
  BY <1>4 DEF AloneFails, Goto, stored, memory, waiting, history, TypeOK,
     CommandOK, CopiesAgree, WaitsForAnswer, Decided
<1>5. ASSUME NEW op \in Ops, Register(op)
      PROVE  WaitsForAnswer'
  BY <1>5 DEF Register, Goto, waiting, stored, memory, history, TypeOK,
     CommandOK, CopiesAgree, WaitsForAnswer, Decided
<1>6. ASSUME NEW op \in Ops, Hear(op)
      PROVE  WaitsForAnswer'
  BY <1>6 DEF Hear, Follows, waiting, Goto, finishLiveApproval, stored, memory,
     history, TypeOK, CommandOK, CopiesAgree, WaitsForAnswer, Decided
<1>7. ASSUME NEW op \in Ops, Leave(op)
      PROVE  WaitsForAnswer'
  BY <1>7 DEF Leave, waiting, Goto, finishLiveApproval, stored, memory,
     history, TypeOK, CommandOK, CopiesAgree, WaitsForAnswer, Decided
<1>8. ASSUME NEW op \in Ops, Settle(op)
      PROVE  WaitsForAnswer'
  BY <1>8 DEF Settle, Goto, waiting, history, TypeOK, CommandOK, CopiesAgree,
     WaitsForAnswer, Decided
<1>9. ASSUME Decide
      PROVE  WaitsForAnswer'
  BY <1>9 DEF Decide, ResolveApproval, decideApproval, decisionOf,
     GrantSession, Mode, At, waiting, TypeOK, CommandOK, CopiesAgree,
     WaitsForAnswer, Decided
<1>10. ASSUME DecideFails
      PROVE  WaitsForAnswer'
  BY <1>10 DEF DecideFails, Returned, Idle, stored, memory, history, TypeOK,
     CommandOK, CopiesAgree, WaitsForAnswer, Decided
<1>11. ASSUME Resolved
      PROVE  WaitsForAnswer'
  BY <1>11 DEF Resolved, Deliver, waiting, Mode, Returned, Idle, stored,
     memory, history, TypeOK, CommandOK, CopiesAgree, WaitsForAnswer, Decided
<1>12. ASSUME CardDecides
      PROVE  WaitsForAnswer'
  BY <1>12 DEF CardDecides, decideApproval, decisionOf, At, memory, waiting,
     TypeOK, CommandOK, CopiesAgree, WaitsForAnswer, Decided
<1>13. ASSUME CardClaims
      PROVE  WaitsForAnswer'
  BY <1>13 DEF CardClaims, Started, Decided, Idle, TypeOK, CommandOK,
     CopiesAgree, WaitsForAnswer
<1>14. ASSUME Drain
      PROVE  WaitsForAnswer'
  BY <1>14 DEF Drain, stored, memory, history, TypeOK, CommandOK,
     CopiesAgree, WaitsForAnswer, Decided
<1>15. ASSUME NEW op \in Ops, NEW m \in Answers, Answer(op, m)
      PROVE  WaitsForAnswer'
  BY <1>15 DEF Answer, Sends, Idle, stored, memory, history, TypeOK,
     CommandOK, CopiesAgree, WaitsForAnswer, Decided
<1>16. ASSUME Crash
      PROVE  WaitsForAnswer'
  BY <1>16 DEF Crash, Started, Decided, Idle, TypeOK, CommandOK, CopiesAgree,
     WaitsForAnswer
<1>17. ASSUME UNCHANGED <<durable, asked, call, live, known>>
      PROVE  WaitsForAnswer'
  BY <1>17 DEF WaitsForAnswer, Decided
<1>18. ASSUME NEW op \in Ops,
             Expire(op)
      PROVE  WaitsForAnswer'
  BY <1>17, <1>18 DEF Expire, memory, waiting, history
<1>19. CASE TurnEnds \/ CardFails \/ CardStores \/ CardLoads \/
           ClaimFails \/ LoadFails \/ Discontinue \/ Drained \/ PersistMode \/ EngineCancels \/
           CancelActive \/ Shutdown
  BY <1>17, <1>19 DEF TurnEnds, memory, waiting, history, CardFails, stored,
     CardStores, CardLoads, ClaimFails, LoadFails, Discontinue, Drained, PersistMode, EngineCancels,
     CancelActive, Shutdown
<1>20. ASSUME NEW m \in Modes, SetApprovalMode(m)
      PROVE  WaitsForAnswer'
  BY <1>17, <1>20 DEF SetApprovalMode, stored, waiting, history
<1>21. CASE UNCHANGED vars
  BY <1>17, <1>21 DEF vars, stored, memory, waiting, history
<1> QED
  BY <1>1, <1>2, <1>3, <1>4, <1>5, <1>6, <1>7, <1>8, <1>9, <1>10, <1>11,
     <1>12, <1>13, <1>14, <1>15, <1>16, <1>17, <1>18, <1>19, <1>20, <1>21
     DEF Next, Progress, CallStep, CommandStep

\* The outcomes.
LEMMA StepOutcomeWasDecided == ApprovalInv /\ [Next]_vars => OutcomeWasDecided'
<1> SUFFICES ASSUME ApprovalInv, [Next]_vars
             PROVE  OutcomeWasDecided'
  OBVIOUS
<1> USE NoOpAssumption DEF ApprovalInv
<1>1. ASSUME NEW op \in Ops, PrepareDriver(op)
      PROVE  OutcomeWasDecided'
  BY <1>1 DEF PrepareDriver, Prepared, Goto, requestApproval, Consumes,
     history, TypeOK, CommandOK, CopiesAgree, OutcomeWasDecided
<1>2. ASSUME NEW op \in Ops, DecidesAlone(op)
      PROVE  OutcomeWasDecided'
  BY <1>2 DEF DecidesAlone, Follows, Verdicts, ResolveApproval, decideApproval,
     decisionOf, GrantSession, Goto, TypeOK, CommandOK, CopiesAgree,
     OutcomeWasDecided
<1>3. ASSUME NEW op \in Ops, Settle(op)
      PROVE  OutcomeWasDecided'
  BY <1>3 DEF Settle, Goto, history, TypeOK, CommandOK, CopiesAgree,
     OutcomeWasDecided
<1>4. ASSUME Decide
      PROVE  OutcomeWasDecided'
  BY <1>4 DEF Decide, ResolveApproval, decideApproval, decisionOf,
     GrantSession, Mode, At, TypeOK, CommandOK, CopiesAgree,
     OutcomeWasDecided
<1>5. ASSUME CardDecides
      PROVE  OutcomeWasDecided'
  BY <1>5 DEF CardDecides, decideApproval, decisionOf, At, TypeOK, CommandOK,
     CopiesAgree, OutcomeWasDecided
<1>6. ASSUME CardStores
      PROVE  OutcomeWasDecided'
  BY <1>6 DEF CardStores, GrantSession, decisionOf, At, stored, TypeOK,
     CommandOK, CopiesAgree, OutcomeWasDecided
<1>7. ASSUME UNCHANGED <<durable, outcome, granted>>
      PROVE  OutcomeWasDecided'
  BY <1>7 DEF OutcomeWasDecided
<1>8. ASSUME NEW op \in Ops,
             ReadMode(op) \/ AloneFails(op) \/ Register(op) \/ Hear(op)
             \/ Leave(op) \/ Expire(op)
      PROVE  OutcomeWasDecided'
  BY <1>7, <1>8 DEF ReadMode, stored, history, AloneFails, Register, Hear,
     Leave, Expire
<1>9. CASE TurnEnds \/ DecideFails \/ Resolved \/ CardFails \/
           CardLoads \/ CardClaims \/ ClaimFails \/ LoadFails \/ Discontinue \/ Drain \/ Drained
           \/ PersistMode \/ EngineCancels \/ CancelActive \/
           Shutdown \/ Crash
  BY <1>7, <1>9 DEF TurnEnds, history, DecideFails, stored, Resolved,
     CardFails, CardLoads, CardClaims, ClaimFails, LoadFails, Discontinue, Drain, Drained,
     PersistMode, EngineCancels, CancelActive, Shutdown, Crash
<1>10. ASSUME NEW op \in Ops, NEW m \in Answers, Answer(op, m)
      PROVE  OutcomeWasDecided'
  BY <1>7, <1>10 DEF Answer, stored, history
<1>11. ASSUME NEW m \in Modes, SetApprovalMode(m)
      PROVE  OutcomeWasDecided'
  BY <1>7, <1>11 DEF SetApprovalMode, stored, history
<1>12. CASE UNCHANGED vars
  BY <1>7, <1>12 DEF vars, stored, history
<1> QED
  BY <1>1, <1>2, <1>3, <1>4, <1>5, <1>6, <1>7, <1>8, <1>9, <1>10, <1>11,
     <1>12
     DEF Next, Progress, CallStep, CommandStep

\* What a call is told.
LEMMA StepHeardIsRecorded == ApprovalInv /\ [Next]_vars => HeardIsRecorded'
<1> SUFFICES ASSUME ApprovalInv, [Next]_vars
             PROVE  HeardIsRecorded'
  OBVIOUS
<1> USE NoOpAssumption DEF ApprovalInv
<1>1. ASSUME NEW op \in Ops, PrepareDriver(op)
      PROVE  HeardIsRecorded'
  BY <1>1 DEF PrepareDriver, Prepared, Goto, requestApproval, Consumes,
     waiting, TypeOK, CommandOK, CopiesAgree, WaitsForAnswer,
     HeardIsRecorded, decisionOf
<1>2. ASSUME NEW op \in Ops, ReadMode(op)
      PROVE  HeardIsRecorded'
  BY <1>2 DEF ReadMode, Goto, stored, waiting, TypeOK, CommandOK,
     CopiesAgree, WaitsForAnswer, HeardIsRecorded, decisionOf
<1>3. ASSUME NEW op \in Ops, DecidesAlone(op)
      PROVE  HeardIsRecorded'
  BY <1>3 DEF DecidesAlone, Follows, Verdicts, ResolveApproval, decideApproval,
     decisionOf, GrantSession, Goto, waiting, TypeOK, CommandOK, CopiesAgree,
     WaitsForAnswer, HeardIsRecorded
<1>4. ASSUME NEW op \in Ops, AloneFails(op)
      PROVE  HeardIsRecorded'
  BY <1>4 DEF AloneFails, Goto, stored, waiting, TypeOK, CommandOK,
     CopiesAgree, WaitsForAnswer, HeardIsRecorded, decisionOf
<1>5. ASSUME NEW op \in Ops, Register(op)
      PROVE  HeardIsRecorded'
  BY <1>5 DEF Register, Goto, waiting, stored, TypeOK, CommandOK,
     CopiesAgree, WaitsForAnswer, HeardIsRecorded, decisionOf
<1>6. ASSUME NEW op \in Ops, Hear(op)
      PROVE  HeardIsRecorded'
  BY <1>6 DEF Hear, Follows, waiting, Goto, finishLiveApproval, stored, TypeOK,
     CommandOK, CopiesAgree, WaitsForAnswer, HeardIsRecorded, decisionOf
<1>7. ASSUME NEW op \in Ops, Leave(op)
      PROVE  HeardIsRecorded'
  BY <1>7 DEF Leave, waiting, Goto, finishLiveApproval, stored, TypeOK,
     CommandOK, CopiesAgree, WaitsForAnswer, HeardIsRecorded, decisionOf
<1>8. ASSUME NEW op \in Ops, Settle(op)
      PROVE  HeardIsRecorded'
  BY <1>8 DEF Settle, Goto, waiting, TypeOK, CommandOK, CopiesAgree,
     WaitsForAnswer, HeardIsRecorded, decisionOf
<1>9. ASSUME Decide
      PROVE  HeardIsRecorded'
  BY <1>9 DEF Decide, ResolveApproval, decideApproval, decisionOf,
     GrantSession, Mode, At, waiting, TypeOK, CommandOK, CopiesAgree,
     WaitsForAnswer, HeardIsRecorded
<1>10. ASSUME Resolved
      PROVE  HeardIsRecorded'
  BY <1>10 DEF Resolved, Deliver, waiting, Mode, Returned, Idle, stored,
     TypeOK, CommandOK, CopiesAgree, WaitsForAnswer, HeardIsRecorded,
     decisionOf
<1>11. ASSUME CardDecides
      PROVE  HeardIsRecorded'
  BY <1>11 DEF CardDecides, decideApproval, decisionOf, At, waiting, TypeOK,
     CommandOK, CopiesAgree, WaitsForAnswer, HeardIsRecorded
<1>12. ASSUME CardClaims
      PROVE  HeardIsRecorded'
  BY <1>12 DEF CardClaims, Started, Decided, Idle, TypeOK, CommandOK,
     CopiesAgree, WaitsForAnswer, HeardIsRecorded, decisionOf
<1>13. ASSUME Crash
      PROVE  HeardIsRecorded'
  BY <1>13 DEF Crash, Started, Decided, Idle, TypeOK, CommandOK, CopiesAgree,
     WaitsForAnswer, HeardIsRecorded, decisionOf
<1>14. ASSUME UNCHANGED <<durable, call, heard>>
      PROVE  HeardIsRecorded'
  BY <1>14 DEF HeardIsRecorded, decisionOf
<1>15. ASSUME NEW op \in Ops,
             Expire(op)
      PROVE  HeardIsRecorded'
  BY <1>14, <1>15 DEF Expire, waiting
<1>16. CASE TurnEnds \/ DecideFails \/ CardFails \/ CardStores \/
           CardLoads \/ ClaimFails \/ LoadFails \/ Discontinue \/ Drain \/ Drained \/ PersistMode
           \/ EngineCancels \/ CancelActive \/ Shutdown
  BY <1>14, <1>16 DEF TurnEnds, waiting, DecideFails, stored, CardFails,
     CardStores, CardLoads, ClaimFails, LoadFails, Discontinue, Drain, Drained, PersistMode,
     EngineCancels, CancelActive, Shutdown
<1>17. ASSUME NEW op \in Ops, NEW m \in Answers, Answer(op, m)
      PROVE  HeardIsRecorded'
  BY <1>14, <1>17 DEF Answer, stored
<1>18. ASSUME NEW m \in Modes, SetApprovalMode(m)
      PROVE  HeardIsRecorded'
  BY <1>14, <1>18 DEF SetApprovalMode, stored, waiting
<1>19. CASE UNCHANGED vars
  BY <1>14, <1>19 DEF vars, stored, waiting
<1> QED
  BY <1>1, <1>2, <1>3, <1>4, <1>5, <1>6, <1>7, <1>8, <1>9, <1>10, <1>11,
     <1>12, <1>13, <1>14, <1>15, <1>16, <1>17, <1>18, <1>19
     DEF Next, Progress, CallStep, CommandStep

-----------------------------------------------------------------------------
(* The theorems. *)

\* The inductive invariant holds however approvals are asked, decided, heard, recovered
\* and interrupted (provider_approval.go, provider_resume.go, agent/service.go).
THEOREM ApprovalInvariant == Spec => []ApprovalInv
<1>1. ApprovalInv /\ [Next]_vars => ApprovalInv'
  BY StepTypeOK, StepCommandOK, StepCopiesAgree, StepWaitsForAnswer,
     StepOutcomeWasDecided, StepHeardIsRecorded DEF ApprovalInv
<1> QED
  BY <1>1, InitApprovalInv, PTL DEF Spec

\* An operation runs only with an approval of its own or of its scope, and is
\* denied only if it was rejected (PrepareDriver, ResolveApproval and the recovery
\* notices, across any number of restarts).
THEOREM ApprovalOutcomeWasDecided == Spec => []OutcomeWasDecided
<1>1. ApprovalInv => OutcomeWasDecided
  BY DEF ApprovalInv
<1> QED
  BY <1>1, ApprovalInvariant, PTL

\* A waiting call is told what is recorded, and only while it waits
\* (resolveLiveApproval against the end of its call).
THEOREM ApprovalHeardIsRecorded == Spec => []HeardIsRecorded
<1>1. ApprovalInv => HeardIsRecorded
  BY DEF ApprovalInv
<1> QED
  BY <1>1, ApprovalInvariant, PTL

\* Nobody is asked again for what was decided before the run started or resumed
\* (loadOperationApproval).
THEOREM ApprovalNotAskedAgain == Spec => []NotAskedAgain
<1>1. ApprovalInv => NotAskedAgain
  BY DEF ApprovalInv, TypeOK, WaitsForAnswer, NotAskedAgain
<1> QED
  BY <1>1, ApprovalInvariant, PTL

=============================================================================
