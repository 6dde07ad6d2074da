-------------------------- MODULE SessionOps_proofs --------------------------
(***************************************************************************)
(* For any of the types of operation: what one login_status for all        *)
(* operations of a session still ensures, and that what has finished is    *)
(* not used again.                                                         *)
(***************************************************************************)
EXTENDS SessionOps, TLAPS

(* As long as the operation begun last waits for its login, the status of  *)
(* the session says so.                                                    *)
WaitingIsRequired ==
  latest # None => \/ ops[latest] = None
                   \/ ops[latest].login /\ ~ops[latest].confirmed => loginStatus = "Required"

(* What waits for a login, and a search, has not finished.                 *)
WaitingUnfinished ==
  /\ loginStatus = "Required" => latest # None /\ (ops[latest] # None => ~ops[latest].finalized)
  /\ \A ty \in OpTypes : ty = "Search" /\ ops[ty] # None => ~ops[ty].finalized

IInv ==
  /\ TypeOK
  /\ WaitingIsRequired
  /\ WaitingUnfinished
-----------------------------------------------------------------------------
LEMMA NewOpFacts ==
  ASSUME NEW login \in BOOLEAN, NEW inUse \in BOOLEAN
  PROVE  /\ NewOp(login, inUse) \in Op
         /\ NewOp(login, inUse) # None
         /\ NewOp(login, inUse).login = login
         /\ ~NewOp(login, inUse).finalized
<1>1. NewOp(login, inUse) \in Op
  BY DEF NewOp, Op
<1> QED
  BY <1>1, SessionOpsAssumption DEF NewOp

(* Feeding or ending an operation keeps everything of it but these two.    *)
LEMMA FedFacts ==
  ASSUME TypeOK, NEW ty \in OpTypes, Active(ty), NEW done \in BOOLEAN,
         ops' = [ops EXCEPT ![ty].inUse = TRUE, ![ty].finalized = done]
  PROVE  /\ ops' \in [OpTypes -> Op \cup {None}]
         /\ ops[ty] \in Op
         /\ ops'[ty] \in Op
         /\ ops'[ty].login = ops[ty].login
         /\ ops'[ty].confirmed = ops[ty].confirmed
         /\ ops'[ty].finalized = done
         /\ \A other \in OpTypes \ {ty} : ops'[other] = ops[other]
<1>1. ops[ty] \in Op /\ ops \in [OpTypes -> Op \cup {None}]
  BY DEF TypeOK, Active
<1> DEFINE fed == [ops[ty] EXCEPT !.inUse = TRUE, !.finalized = done]
<1>2. fed \in Op /\ fed.login = ops[ty].login /\ fed.confirmed = ops[ty].confirmed
      /\ fed.finalized = done
  BY <1>1 DEF Op
<1>3. ops' = [ops EXCEPT ![ty] = fed]
  BY <1>1
<1> HIDE DEF fed
<1> QED
  BY <1>1, <1>2, <1>3

(* The calls that use an operation.                                        *)
Fed(ty, done) ==
  /\ Allowed /\ Active(ty)
  /\ ops' = [ops EXCEPT ![ty].inUse = TRUE, ![ty].finalized = done]
  /\ UNCHANGED <<loginStatus, saved, latest>>

LEMMA UsesAreFed ==
  ASSUME NEW ty \in OpTypes, (\E ok \in BOOLEAN : Update(ty, ok)) \/ OneStep(ty) \/ Final(ty)
  PROVE  ty # "Search" /\ \E done \in BOOLEAN : Fed(ty, done)
  BY DEF Update, OneStep, Final, Fed
-----------------------------------------------------------------------------
LEMMA InitIInv == Init => IInv
  BY SessionOpsAssumption DEF Init, IInv, TypeOK, WaitingIsRequired, WaitingUnfinished, Nothing, OpLogin

LEMMA BeginIInv ==
  ASSUME IInv, NEW ty \in OpTypes, NEW login \in BOOLEAN, Begin(ty, login)
  PROVE  IInv'
<1> DEFINE op == NewOp(login, ty = "Search")
<1>1. op \in Op /\ op # None /\ op.login = login /\ ~op.finalized
  <2>1. op \in Op
    BY DEF NewOp, Op
  <2>2. op.login = login /\ ~op.finalized
    BY DEF NewOp
  <2> HIDE DEF op
  <2> QED
    BY <2>1, <2>2, SessionOpsAssumption
<1> HIDE DEF op
<1>2. /\ ops' = [ops EXCEPT ![ty] = op] /\ latest' = ty /\ saved' = saved
      /\ loginStatus' = IF login THEN "Required" ELSE "NotRequired"
  BY DEF Begin, op
<1>3. TypeOK'
  BY <1>1, <1>2 DEF IInv, TypeOK, OpLogin
<1>4. ops'[ty] = op /\ ty # None
  BY <1>2, SessionOpsAssumption DEF IInv, TypeOK
<1> QED
  BY <1>1, <1>2, <1>3, <1>4 DEF IInv, WaitingIsRequired, WaitingUnfinished

LEMMA FedIInv ==
  ASSUME IInv, NEW ty \in OpTypes, ty # "Search", NEW done \in BOOLEAN, Fed(ty, done)
  PROVE  IInv'
<1>1. /\ ops' \in [OpTypes -> Op \cup {None}] /\ ops[ty] \in Op /\ ops'[ty] \in Op
      /\ ops'[ty].login = ops[ty].login /\ ops'[ty].confirmed = ops[ty].confirmed
      /\ \A other \in OpTypes \ {ty} : ops'[other] = ops[other]
  BY FedFacts DEF Fed, IInv
<1>2. loginStatus' = loginStatus /\ saved' = saved /\ latest' = latest
  BY DEF Fed
<1> QED
  BY <1>1, <1>2, SessionOpsAssumption
     DEF IInv, TypeOK, WaitingIsRequired, WaitingUnfinished, Fed, Allowed

LEMMA CancelIInv ==
  ASSUME IInv, NEW types \in SUBSET OpTypes, Cancel(types)
  PROVE  IInv'
<1>1. /\ ops' \in [OpTypes -> Op \cup {None}]
      /\ \A ty \in OpTypes : ops'[ty] \in {None, ops[ty]}
      /\ loginStatus' = loginStatus /\ saved' = saved /\ latest' = latest
  BY DEF Cancel, IInv, TypeOK
<1> QED
  BY <1>1 DEF IInv, TypeOK, WaitingIsRequired, WaitingUnfinished

LEMMA ContextLoginIInv ==
  ASSUME IInv, ContextLogin
  PROVE  IInv'
<1>1. latest \in OpTypes /\ ops[latest] \in Op \cup {None}
  BY DEF ContextLogin, IInv, TypeOK, WaitingUnfinished
<1>2. /\ loginStatus' = "LoginOk" /\ saved' = saved /\ latest' = latest
      /\ ops' = IF ops[latest] = None THEN ops ELSE [ops EXCEPT ![latest].confirmed = TRUE]
  BY DEF ContextLogin
<1>3. CASE ops[latest] = None
  BY <1>1, <1>2, <1>3 DEF IInv, TypeOK, WaitingIsRequired, WaitingUnfinished, OpLogin
<1>4. CASE ops[latest] # None
  <2> DEFINE op == [ops[latest] EXCEPT !.confirmed = TRUE]
  <2>1. op \in Op /\ op.confirmed /\ op.finalized = ops[latest].finalized
    BY <1>1, <1>4 DEF Op
  <2>2. ops' = [ops EXCEPT ![latest] = op]
    BY <1>1, <1>2, <1>4 DEF IInv, TypeOK
  <2> HIDE DEF op
  <2> QED
    BY <1>1, <1>2, <2>1, <2>2 DEF IInv, TypeOK, WaitingIsRequired, WaitingUnfinished, OpLogin
<1> QED
  BY <1>3, <1>4

LEMMA SaveStateIInv ==
  ASSUME IInv, NEW types \in SUBSET OpTypes, SaveState(types)
  PROVE  IInv'
<1>1. \A ty \in types : ops[ty] \in SavedOp
  BY DEF SaveState, Savable, Active, IInv, TypeOK, SavedOp
<1>2. saved' \in [OpTypes -> SavedOp \cup {None}]
  BY <1>1 DEF SaveState
<1> QED
  BY <1>2 DEF SaveState, IInv, TypeOK, WaitingIsRequired, WaitingUnfinished

(* The place of an operation after C_SetOperationState.                    *)
LEMMA Restored ==
  ASSUME NEW withKey \in BOOLEAN, RestoreState(withKey), NEW ty \in OpTypes
  PROVE  \/ ops'[ty] = ops[ty]
         \/ /\ ty \in Restorable /\ saved[ty] # None
            /\ ops'[ty] = NewOp(FALSE, ty = "Digest")
  BY DEF RestoreState, Restorable

LEMMA RestoreStateIInv ==
  ASSUME IInv, NEW withKey \in BOOLEAN, RestoreState(withKey)
  PROVE  IInv'
<1>1. loginStatus' = loginStatus /\ saved' = saved /\ latest' = latest
  BY DEF RestoreState
<1>2. \A ty \in OpTypes :
        \/ ops'[ty] = ops[ty]
        \/ ops'[ty] \in Op /\ ~ops'[ty].login /\ ~ops'[ty].finalized
  <2> SUFFICES ASSUME NEW ty \in OpTypes
               PROVE  \/ ops'[ty] = ops[ty]
                      \/ ops'[ty] \in Op /\ ~ops'[ty].login /\ ~ops'[ty].finalized
    OBVIOUS
  <2>1. /\ NewOp(FALSE, ty = "Digest") \in Op
        /\ ~NewOp(FALSE, ty = "Digest").login /\ ~NewOp(FALSE, ty = "Digest").finalized
    BY DEF NewOp, Op
  <2> QED
    BY <2>1, Restored
<1>3. ops' = [ty \in OpTypes |-> ops'[ty]]
  BY DEF RestoreState
<1>4. ops' \in [OpTypes -> Op \cup {None}]
  BY <1>2, <1>3 DEF IInv, TypeOK
<1> QED
  BY <1>1, <1>2, <1>4 DEF IInv, TypeOK, WaitingIsRequired, WaitingUnfinished

LEMMA NewSessionIInv ==
  ASSUME IInv, NewSession
  PROVE  IInv'
  BY DEF NewSession, IInv, TypeOK, WaitingIsRequired, WaitingUnfinished, Nothing, OpLogin

LEMMA NextIInv == IInv /\ [Next]_vars => IInv'
<1>1. CASE UNCHANGED vars
  BY <1>1 DEF vars, IInv, TypeOK, WaitingIsRequired, WaitingUnfinished
<1> QED
  BY <1>1, BeginIInv, UsesAreFed, FedIInv, CancelIInv, ContextLoginIInv, SaveStateIInv,
     RestoreStateIInv, NewSessionIInv DEF Next
-----------------------------------------------------------------------------
(* The inductive invariant: whether the operation begun last waits for its *)
(* login, and what login_status says.                                      *)
THEOREM OpsInvariance == Spec => []IInv
<1> QED
  BY InitIInv, NextIInv, PTL DEF Spec

(* Every variable keeps its type; nothing that needs a login, or has       *)
(* finished, is ever in a saved state.                                     *)
THEOREM OpsTypeCorrect == Spec => []TypeOK
<1>1. IInv => TypeOK
  BY DEF IInv
<1> QED
  BY <1>1, OpsInvariance, PTL

LEMMA StepNeedsLogin ==
  ASSUME IInv, [Next]_vars, NEW ty \in OpTypes, Uses(ty), ty = latest, ops[ty].login
  PROVE  ops[ty].confirmed
<1>1. PICK f \in BOOLEAN : ops'[ty] = [ops[ty] EXCEPT !.inUse = TRUE, !.finalized = f]
  BY DEF Uses
<1>2. /\ ops[ty] \in Op /\ ops'[ty].login = ops[ty].login
      /\ ops'[ty].confirmed = ops[ty].confirmed /\ ops'[ty] # None /\ ops'[ty] # ops[ty]
  <2>1. ops[ty] \in Op
    BY DEF Uses, Active, IInv, TypeOK
  <2> QED
    BY <1>1, <2>1 DEF Op, Uses
<1>3. ASSUME Allowed
      PROVE  ops[ty].confirmed
  BY <1>2, <1>3, SessionOpsAssumption DEF Allowed, IInv, TypeOK, WaitingIsRequired, WaitingUnfinished
<1>4. ASSUME NEW other \in OpTypes, NEW login \in BOOLEAN, Begin(other, login)
      PROVE  FALSE
  BY <1>2, <1>4 DEF Begin, Uses, IInv, TypeOK
<1>5. ASSUME NEW types \in SUBSET OpTypes, Cancel(types)
      PROVE  FALSE
  BY <1>2, <1>5 DEF Cancel
<1>6. ASSUME ContextLogin
      PROVE  ops[ty].confirmed
  <2>1. ops' = [ops EXCEPT ![latest].confirmed = TRUE]
    BY <1>2, <1>6 DEF ContextLogin
  <2>2. ops'[ty] = [ops[ty] EXCEPT !.confirmed = TRUE]
    BY <2>1 DEF IInv, TypeOK
  <2>3. ops'[ty].confirmed
    BY <1>2, <2>2 DEF Op
  <2> QED
    BY <1>2, <2>3
<1>7. ASSUME NEW withKey \in BOOLEAN, RestoreState(withKey)
      PROVE  FALSE
  <2>1. ~NewOp(FALSE, ty = "Digest").login
    BY DEF NewOp
  <2> QED
    BY <1>2, <1>7, <2>1, Restored
<1>8. ASSUME \/ \E types \in SUBSET OpTypes : SaveState(types)
             \/ UNCHANGED vars
      PROVE  FALSE
  BY <1>2, <1>8 DEF SaveState, vars
<1>9. ASSUME NewSession
      PROVE  FALSE
  BY <1>2, <1>9 DEF NewSession, Nothing
<1>10. ASSUME NEW other \in OpTypes,
              (\E ok \in BOOLEAN : Update(other, ok)) \/ OneStep(other) \/ Final(other)
       PROVE  Allowed
  BY <1>10 DEF Update, OneStep, Final
<1> QED
  BY <1>3, <1>4, <1>5, <1>6, <1>7, <1>8, <1>9, <1>10 DEF Next

(* check_login_status keeps C_Sign and C_Decrypt, and their parts, from a  *)
(* key that needs a login for each use, while its operation is the latest. *)
THEOREM LatestLogin == Spec => LatestNeedsItsLogin
<1>1. IInv /\ [Next]_vars =>
        [\A ty \in OpTypes : (Uses(ty) /\ ty = latest /\ ops[ty].login) => ops[ty].confirmed]_vars
  BY StepNeedsLogin
<1> QED
  BY <1>1, OpsInvariance, PTL DEF Spec, LatestNeedsItsLogin

LEMMA StepKeepsFinished ==
  ASSUME IInv, [Next]_vars, NEW ty \in OpTypes,
         ops[ty] # None, ops[ty].finalized, ops'[ty] # ops[ty]
  PROVE  \/ ops'[ty] = None
         \/ \E login \in BOOLEAN : ops'[ty] = NewOp(login, FALSE)
         \/ ty \in Restorable /\ saved[ty] # None /\ ops'[ty] = NewOp(FALSE, TRUE)
<1>1. ASSUME NEW other \in OpTypes,
             (\E ok \in BOOLEAN : Update(other, ok)) \/ OneStep(other) \/ Final(other)
      PROVE  FALSE
  <2>1. PICK done \in BOOLEAN : Fed(other, done)
    BY <1>1, UsesAreFed
  <2>2. other # ty
    BY <2>1 DEF Fed, Active
  <2> QED
    BY <2>1, <2>2, FedFacts DEF Fed, IInv
<1>2. ASSUME NEW other \in OpTypes, NEW login \in BOOLEAN, Begin(other, login)
      PROVE  \E l \in BOOLEAN : ops'[ty] = NewOp(l, FALSE)
  <2>1. ops' = [ops EXCEPT ![other] = NewOp(login, other = "Search")]
    BY <1>2 DEF Begin
  <2>2. other = ty
    BY <2>1 DEF IInv, TypeOK
  <2>3. ty # "Search"
    BY DEF IInv, WaitingUnfinished
  <2>4. ops'[ty] = NewOp(login, ty = "Search")
    BY <2>1, <2>2 DEF IInv, TypeOK
  <2> QED
    BY <2>3, <2>4 DEF NewOp
<1>3. ASSUME NEW types \in SUBSET OpTypes, Cancel(types)
      PROVE  ops'[ty] = None
  BY <1>3 DEF Cancel
<1>4. ASSUME ContextLogin
      PROVE  FALSE
  <2>1. latest \in OpTypes /\ (ops[latest] # None => ~ops[latest].finalized)
    BY <1>4 DEF ContextLogin, IInv, TypeOK, WaitingUnfinished
  <2> QED
    BY <1>4, <2>1 DEF ContextLogin, IInv, TypeOK
<1>5. ASSUME NEW withKey \in BOOLEAN, RestoreState(withKey)
      PROVE  /\ ty \in Restorable /\ saved[ty] # None
             /\ ops'[ty] = NewOp(FALSE, TRUE) \/ ops'[ty] = NewOp(FALSE, FALSE)
  BY <1>5, Restored DEF NewOp
<1>6. ASSUME \/ \E types \in SUBSET OpTypes : SaveState(types)
             \/ UNCHANGED vars
      PROVE  FALSE
  BY <1>6 DEF SaveState, vars
<1>7. ASSUME NewSession
      PROVE  ops'[ty] = None
  BY <1>7 DEF NewSession, Nothing
<1> QED
  BY <1>1, <1>2, <1>3, <1>4, <1>5, <1>6, <1>7 DEF Next

(* No call feeds, confirms or revives an operation that has finished; it   *)
(* is taken away, or another takes its place.                              *)
THEOREM FinishedStays == Spec => FinishedStaysFinished
<1>1. IInv /\ [Next]_vars =>
        [\A ty \in OpTypes :
           (ops[ty] # None /\ ops[ty].finalized /\ ops'[ty] # ops[ty]) =>
             \/ ops'[ty] = None
             \/ \E login \in BOOLEAN : ops'[ty] = NewOp(login, FALSE)
             \/ ty \in Restorable /\ saved[ty] # None /\ ops'[ty] = NewOp(FALSE, TRUE)]_vars
  BY StepKeepsFinished
<1> QED
  BY <1>1, OpsInvariance, PTL DEF Spec, FinishedStaysFinished
=============================================================================
