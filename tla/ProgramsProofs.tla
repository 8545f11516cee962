---------------------------- MODULE ProgramsProofs -----------------------------
(***************************************************************************)
(* Proofs about Programs: whichever program runs, it keeps everything that *)
(* was proved of its component alone, because the composition implements   *)
(* both components, their fairness included.                               *)
(***************************************************************************)
EXTENDS Programs, NotifySocketProofs, StdioEngineProofs

\* Every step of a program is a step of its component and a stutter of the other.
LEMMA StepOfEither ==
    ASSUME [ProgramNext]_<<program, socketVars, vars>>
    PROVE  [SocketNext]_socketVars /\ [Next]_vars /\ UNCHANGED program
    BY DEF ProgramNext, TmuxEmit, Emit

\* The daemons of either program are daemons on one notify socket, with the
\* progress that NotifySocket assumes of them.
THEOREM ProgramsImplementSocket == ProgramSpec => SocketFairSpec
<1>1. ProgramInit => SocketInit
    BY DEF ProgramInit
<1>2. [ProgramNext]_<<program, socketVars, vars>> => [SocketNext]_socketVars
    BY StepOfEither
<1> QED
    BY <1>1, <1>2, PTL DEF ProgramSpec, SocketFairSpec, SocketSpec

\* The stdio process of either program is one emit --stdio process, with the
\* progress that StdioEngine assumes of it.
THEOREM ProgramsImplementEngine == ProgramSpec => FairSpec
<1>1. ProgramInit => Init
    BY DEF ProgramInit
<1>2. [ProgramNext]_<<program, socketVars, vars>> => [Next]_vars
    BY StepOfEither
<1> QED
    BY <1>1, <1>2, PTL DEF ProgramSpec, FairSpec, Spec

\* The state of both programs keeps its types.
THEOREM TypesCorrect == ProgramSpec => []TypesOK
<1> DEFINE Chosen == program \in {"tmux-emit", "emit"}
<1>1. ProgramInit => Chosen
    BY DEF ProgramInit
<1>2. Chosen /\ [ProgramNext]_<<program, socketVars, vars>> => Chosen'
    BY StepOfEither
<1>3. ProgramSpec => []Chosen
    BY <1>1, <1>2, PTL DEF ProgramSpec
<1>4. SocketFairSpec => []SocketTypeOK
    BY TypeCorrect, PTL DEF SocketFairSpec
<1>5. EngineInvariant => TypeOK
    BY DEF EngineInvariant
<1>6. FairSpec => []TypeOK
    BY <1>5, InvariantHolds, ProgramConstants, PTL DEF FairSpec
<1>7. Chosen /\ SocketTypeOK /\ TypeOK => TypesOK
    BY DEF TypesOK
<1> QED
    BY <1>3, <1>4, <1>6, <1>7, ProgramsImplementSocket, ProgramsImplementEngine, PTL

\* Both components keep their promises inside the composition: what the
\* programs run checks on a small instance holds for every one.
THEOREM PromisesCompose ==
    ProgramSpec => /\ []RunningOwnsPath /\ RefusedForCause
                   /\ []AnswerFitsLine /\ []CallFitsRequest
                   /\ []FirstSuccessAnswers /\ []NothingLeftBehind
<1>1. SocketFairSpec => []RunningOwnsPath /\ RefusedForCause
    BY OwnershipHolds, RefusalsHaveCause, PTL DEF SocketFairSpec
<1>2. FairSpec => /\ []AnswerFitsLine /\ []CallFitsRequest
                  /\ []FirstSuccessAnswers /\ []NothingLeftBehind
    BY AnswersFit, CallsFit, FirstSuccessIsAnswered, NothingIsLeftBehind,
       ProgramConstants, PTL DEF FairSpec
<1> QED
    BY <1>1, <1>2, ProgramsImplementSocket, ProgramsImplementEngine, PTL
=============================================================================
