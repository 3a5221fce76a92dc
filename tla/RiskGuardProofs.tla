---------------------------- MODULE RiskGuardProofs ----------------------------
(****************************************************************************)
(* What holds of the profit side of a position for any ROEs the market may  *)
(* show, any stops, and any number of workers and tasks: type correctness,  *)
(* that no cycle leaves a position behind below its floor, that the floor   *)
(* only rises, and that nobody waits for somebody who does not work.        *)
(****************************************************************************)
EXTENDS RiskGuard, TLAPS

USE LevelsAssumption, StopsAssumption DEF storeVars

\* The larger of two integers is one of them, and no smaller than either.
LEMMA BetterBounds ==
  ASSUME NEW a \in Int, NEW b \in Int
  PROVE  Better(a, b) \in Int /\ Better(a, b) >= a /\ Better(a, b) >= b
BY DEF Better

\* One record's turn in the cycle: the record it leaves behind, and what follows when
\* nobody closes it.
LEMMA JudgeFacts ==
  ASSUME TypeOK, NEW r \in Int, NEW cvd \in BOOLEAN, Judge(r, cvd)
  PROVE  /\ roe' = r /\ roe' \in Int /\ mfe' \in Int /\ mfe' >= mfe /\ mfe' >= roe'
         /\ alert' \in BOOLEAN
         /\ alert' => alert \/ mfe' > 100
         /\ closer' \in {"none", "risk", "sentinel", "main"}
         /\ guard' \in {"asleep", "asking", "executing"}
         /\ closer' = "none" => ~Exits(r, mfe', cvd)
         /\ UNCHANGED <<held, long, momentum, overdue>>
<1>1. roe' = r /\ roe' \in Int /\ mfe' \in Int /\ mfe' >= mfe /\ mfe' >= roe'
  BY BetterBounds DEF Judge, TypeOK
<1>2. alert' \in BOOLEAN /\ (alert' => alert \/ mfe' > 100)
  BY DEF Judge, TypeOK, Arms
<1>3. /\ closer' \in {"none", "risk", "sentinel", "main"}
      /\ guard' \in {"asleep", "asking", "executing"}
      /\ closer' = "none" => ~Exits(r, mfe', cvd)
  BY DEF Judge, TypeOK
<1>4. QED
  BY <1>1, <1>2, <1>3 DEF Judge

\* A cycle is a turn with some price: one of the market, or the zero of an error.
LEMMA JudgesFacts ==
  ASSUME TypeOK, Judges
  PROVE  /\ \E r \in Int, cvd \in BOOLEAN : Judge(r, cvd)
         /\ UNCHANGED <<opening, adopting, quote, sentinel, driven>>
         /\ blocked' = blocked \/ blocked' = {}
<1>1. CASE Scan
  BY <1>1 DEF Scan, JudgeMarket
<1>2. CASE AnswerPrice
  BY <1>2 DEF AnswerPrice, JudgeMarket
<1>3. CASE AnswerError
  <2>1. (IF long THEN -Ruin ELSE Ruin) \in Int
    OBVIOUS
  <2>2. QED
    BY <1>3, <2>1 DEF AnswerError
<1>4. QED
  BY <1>1, <1>2, <1>3 DEF Judges, Answer

\* The alert is raised only above ten percent: what the breakeven stop, which a raised
\* alert switches off, needs the trailing stop to take over from.
GuardInv ==
    /\ TypeOK
    /\ alert => mfe > 100

\* The steps that are no turn of the RiskGuard keep the invariant.
LEMMA InvStep == GuardInv /\ [Next]_vars => GuardInv'
<1> SUFFICES ASSUME GuardInv, [Next]_vars PROVE GuardInv'
  OBVIOUS
<1> USE DEF GuardInv
<1>1. CASE Judges
  <2>1. PICK r \in Int, cvd \in BOOLEAN : Judge(r, cvd)
    BY <1>1, JudgesFacts
  <2>2. /\ UNCHANGED <<opening, adopting, quote, sentinel, driven>>
        /\ blocked' = blocked \/ blocked' = {}
    BY <1>1, JudgesFacts
  <2>3. TypeOK'
    BY <2>1, <2>2, JudgeFacts DEF TypeOK
  <2>4. mfe \in Int /\ mfe' \in Int /\ mfe' >= mfe /\ (alert' => alert \/ mfe' > 100)
    BY <2>1, JudgeFacts DEF TypeOK
  <2>5. QED
    BY <2>3, <2>4
<1>2. CASE FeedStep
  BY <1>2 DEF FeedStep, BookTicker, GrowOld, recordVars, loopVars, TypeOK
<1>3. CASE Ask \/ ScanOthers
  BY <1>3 DEF Ask, ScanOthers, recordVars, TypeOK
<1>4. CASE Wake \/ \E t \in PoolTasks : Block(t)
  <2>1. blocked' \subseteq PoolTasks /\ driven' \in BOOLEAN
    BY <1>4 DEF Wake, Block, TypeOK
  <2>2. UNCHANGED <<recordVars, storeVars, closer, quote, guard, sentinel>>
    BY <1>4 DEF Wake, Block
  <2>3. QED
    BY <2>1, <2>2 DEF recordVars, TypeOK
<1>5. CASE SentinelStep
  <2>1. CASE SentinelClose
    <3>1. UNCHANGED <<held, long, momentum, overdue, roe, mfe, alert, storeVars, quote, guard, blocked, driven>>
      BY <2>1 DEF SentinelClose, recordVars
    <3>2. closer' = "sentinel" /\ sentinel' = "executing"
      BY <2>1 DEF SentinelClose
    <3>3. QED
      BY <3>1, <3>2 DEF TypeOK
  <2>2. CASE SentinelCloseOthers
    BY <2>2 DEF SentinelCloseOthers, recordVars, TypeOK
  <2>3. QED
    BY <1>5, <2>1, <2>2 DEF SentinelStep
<1>6. CASE Reverse \/ Unlock
  <2>1. /\ held' \in BOOLEAN /\ long' \in BOOLEAN /\ momentum' \in BOOLEAN
        /\ overdue' \in BOOLEAN /\ alert' \in BOOLEAN /\ opening' \in BOOLEAN
        /\ adopting' \in BOOLEAN
    BY <1>6 DEF Reverse, Unlock, recordVars, loopVars, TypeOK
  <2>2. /\ roe' \in Int /\ mfe' \in Int /\ mfe' >= roe'
        /\ alert' => mfe' > 100
    BY <1>6 DEF Reverse, Unlock, recordVars, loopVars, TypeOK
  <2>3. /\ closer' \in {"none", "risk", "sentinel", "main"}
        /\ UNCHANGED <<quote, guard, sentinel, blocked, driven>>
    BY <1>6 DEF Reverse, Unlock, recordVars, loopVars, TypeOK
  <2>4. QED
    BY <2>1, <2>2, <2>3 DEF TypeOK
<1>7. CASE Closed
  <2>1. /\ held' \in BOOLEAN /\ long' \in BOOLEAN /\ momentum' \in BOOLEAN
        /\ overdue' \in BOOLEAN /\ alert' \in BOOLEAN /\ opening' \in BOOLEAN
        /\ adopting' \in BOOLEAN
    BY <1>7 DEF Closed, NoRecord, TypeOK
  <2>2. /\ roe' \in Int /\ mfe' \in Int /\ mfe' >= roe'
        /\ alert' => mfe' > 100
    BY <1>7 DEF Closed, NoRecord, TypeOK
  <2>3. /\ guard' \in {"asleep", "asking", "executing"}
        /\ sentinel' \in {"asleep", "executing"}
        /\ closer' = "none" /\ UNCHANGED <<quote, blocked, driven>>
    BY <1>7 DEF Closed, TypeOK
  <2>4. QED
    BY <2>1, <2>2, <2>3 DEF TypeOK
<1>8. CASE CloseFailed
  BY <1>8 DEF CloseFailed, recordVars, TypeOK
<1>9. CASE GuardGoesOn \/ SentinelGoesOn
  BY <1>9 DEF GuardGoesOn, SentinelGoesOn, recordVars, TypeOK
<1>10. CASE Order \/ OrderFailed \/ FindMissing
  <2>1. /\ held' \in BOOLEAN /\ long' \in BOOLEAN /\ momentum' \in BOOLEAN
        /\ overdue' \in BOOLEAN /\ alert' \in BOOLEAN /\ opening' \in BOOLEAN
        /\ adopting' \in BOOLEAN
    BY <1>10 DEF Order, OrderFailed, FindMissing, recordVars, loopVars, TypeOK
  <2>2. /\ roe' \in Int /\ mfe' \in Int /\ mfe' >= roe'
        /\ alert' => mfe' > 100
    BY <1>10 DEF Order, OrderFailed, FindMissing, recordVars, loopVars, TypeOK
  <2>3. /\ closer' \in {"none", "risk", "sentinel", "main"}
        /\ UNCHANGED <<quote, guard, sentinel, blocked, driven>>
    BY <1>10 DEF Order, OrderFailed, FindMissing, recordVars, loopVars, TypeOK
  <2>4. QED
    BY <2>1, <2>2, <2>3 DEF TypeOK
<1>11. CASE Open \/ Adopt
  <2>1. /\ held' \in BOOLEAN /\ long' \in BOOLEAN /\ momentum' \in BOOLEAN
        /\ overdue' \in BOOLEAN /\ alert' \in BOOLEAN /\ opening' \in BOOLEAN
        /\ adopting' \in BOOLEAN
    BY <1>11 DEF Open, Adopt, FreshRecord, loopVars, TypeOK
  <2>2. /\ roe' \in Int /\ mfe' \in Int /\ mfe' >= roe'
        /\ alert' => mfe' > 100
    BY <1>11 DEF Open, Adopt, FreshRecord, loopVars, TypeOK
  <2>3. /\ closer' \in {"none", "risk", "sentinel", "main"}
        /\ UNCHANGED <<quote, guard, sentinel, blocked, driven>>
    BY <1>11 DEF Open, Adopt, FreshRecord, loopVars, TypeOK
  <2>4. QED
    BY <2>1, <2>2, <2>3 DEF TypeOK
<1>12. CASE CorrectAmount \/ TimeBarrier
  <2>1. /\ held' \in BOOLEAN /\ long' \in BOOLEAN /\ momentum' \in BOOLEAN
        /\ overdue' \in BOOLEAN /\ alert' \in BOOLEAN /\ opening' \in BOOLEAN
        /\ adopting' \in BOOLEAN
    BY <1>12 DEF CorrectAmount, TimeBarrier, loopVars, TypeOK
  <2>2. /\ roe' \in Int /\ mfe' \in Int /\ mfe' >= roe'
        /\ alert' => mfe' > 100
    BY <1>12 DEF CorrectAmount, TimeBarrier, loopVars, TypeOK
  <2>3. /\ closer' \in {"none", "risk", "sentinel", "main"}
        /\ UNCHANGED <<quote, guard, sentinel, blocked, driven>>
    BY <1>12 DEF CorrectAmount, TimeBarrier, loopVars, TypeOK
  <2>4. QED
    BY <2>1, <2>2, <2>3 DEF TypeOK
<1>13. CASE Prune
  <2>1. /\ held' \in BOOLEAN /\ long' \in BOOLEAN /\ momentum' \in BOOLEAN
        /\ overdue' \in BOOLEAN /\ alert' \in BOOLEAN /\ opening' \in BOOLEAN
        /\ adopting' \in BOOLEAN
    BY <1>13 DEF Prune, NoRecord, loopVars, TypeOK
  <2>2. /\ roe' \in Int /\ mfe' \in Int /\ mfe' >= roe'
        /\ alert' => mfe' > 100
    BY <1>13 DEF Prune, NoRecord, loopVars, TypeOK
  <2>3. /\ closer' \in {"none", "risk", "sentinel", "main"}
        /\ UNCHANGED <<quote, guard, sentinel, blocked, driven>>
    BY <1>13 DEF Prune, NoRecord, loopVars, TypeOK
  <2>4. QED
    BY <2>1, <2>2, <2>3 DEF TypeOK
<1>14. CASE UNCHANGED vars
  BY <1>14 DEF vars, recordVars, loopVars, TypeOK
<1>15. QED
  BY <1>1, <1>2, <1>3, <1>4, <1>5, <1>6, <1>7, <1>8, <1>9, <1>10, <1>11, <1>12, <1>13,
     <1>14 DEF Next, GuardStep, RestStep, Judges

LEMMA InvInit == Init => GuardInv
<1> SUFFICES ASSUME Init PROVE GuardInv
  OBVIOUS
<1>1. /\ held \in BOOLEAN /\ long \in BOOLEAN /\ momentum \in BOOLEAN /\ overdue \in BOOLEAN
    /\ alert \in BOOLEAN /\ opening \in BOOLEAN /\ adopting \in BOOLEAN /\ driven \in BOOLEAN
  BY DEF Init
<1>2. roe \in Int /\ mfe \in Int /\ mfe >= roe
  BY DEF Init
<1>3. /\ closer \in {"none", "risk", "sentinel", "main"}
    /\ quote \in {"none", "fresh", "old"}
    /\ guard \in {"asleep", "asking", "executing"}
    /\ sentinel \in {"asleep", "executing"}
  BY DEF Init
<1>4. blocked \subseteq PoolTasks
  BY DEF Init
<1>5. ~alert
  BY DEF Init
<1>6. QED
  BY <1>1, <1>2, <1>3, <1>4, <1>5 DEF TypeOK, GuardInv

\* Every variable keeps its type, and the best ROE is no less than the last one, for
\* any set of ROEs and any sets of tasks and workers.
THEOREM TypeCorrect == Spec => []TypeOK
<1>1. GuardInv => TypeOK
  BY DEF GuardInv
<1>2. QED
  BY <1>1, InvInit, InvStep, PTL DEF Spec

----------------------------------------------------------------------------

\* A position that no phase closes is at or above its floor.
LEMMA NoExitNoLoss ==
  ASSUME GuardInv, NEW r \in Int, NEW best \in Int, NEW cvd \in BOOLEAN,
         best >= mfe, ~Exits(r, best, cvd)
  PROVE  100 * r >= Floor(momentum, best)
<1> USE DEF GuardInv, TypeOK
<1>1. r >= -120
  BY DEF Exits, HardStop
<1>2. CASE momentum
  <2>1. CASE best > 100
    <3>1. best - r <= 150
      BY <1>2, <2>1 DEF Exits, MomentumExit
    <3>2. Floor(momentum, best) = Better(-12000, 100 * (best - 150))
      BY <1>2, <2>1 DEF Floor
    <3>3. QED
      BY <1>1, <3>1, <3>2 DEF Better
  <2>2. CASE ~(best > 100)
    BY <1>1, <1>2, <2>2 DEF Floor
  <2>3. QED
    BY <2>1, <2>2
<1>3. CASE ~momentum
  <2>1. CASE best > 100
    <3>1. alert \/ Arms(r, best, cvd)
      BY <1>3, <2>1 DEF Exits, Arms
    <3>2. ~(100 * r < Share(best) * best)
      BY <1>3, <3>1 DEF Exits, TrailingStop
    <3>3. Share(best) \in Int
      BY DEF Share
    <3>4. Floor(momentum, best) = Share(best) * best
      BY <1>3, <2>1 DEF Floor
    <3>5. Share(best) * best \in Int
      BY <3>3
    <3>6. QED
      BY <3>2, <3>4, <3>5
  <2>2. CASE best > 80 /\ best <= 100
    <3>1. ~alert
      BY <2>2
    <3>2. r >= 15
      BY <1>3, <2>2, <3>1 DEF Exits, Breakeven
    <3>3. QED
      BY <1>3, <2>2, <3>2 DEF Floor
  <2>3. CASE best <= 80
    BY <1>1, <1>3, <2>3 DEF Floor
  <2>4. QED
    BY <2>1, <2>2, <2>3
<1>4. QED
  BY <1>2, <1>3

\* No cycle of the RiskGuard leaves a position behind below its floor without somebody
\* closing it, whatever prices it sees.
THEOREM KeepsTheFloor == Spec => FloorKept
<1>1. GuardInv /\ [Next]_vars
        => [Judges => (closer' # "none" \/ 100 * roe' >= Floor(momentum, mfe'))]_vars
  <2> SUFFICES ASSUME GuardInv, Judges, closer' = "none"
               PROVE  100 * roe' >= Floor(momentum, mfe')
    OBVIOUS
  <2>1. TypeOK
    BY DEF GuardInv
  <2>2. PICK r \in Int, cvd \in BOOLEAN : Judge(r, cvd)
    BY <2>1, JudgesFacts
  <2>3. roe' = r /\ mfe' \in Int /\ mfe' >= mfe /\ ~Exits(r, mfe', cvd)
    BY <2>1, <2>2, JudgeFacts
  <2>4. QED
    BY <2>3, NoExitNoLoss
<1>2. QED
  BY <1>1, InvInit, InvStep, PTL DEF Spec, FloorKept

\* A better best ROE never makes for a lower floor: each stage ends below where the
\* next one begins.
LEMMA FloorMonotone ==
  ASSUME NEW m \in BOOLEAN, NEW a \in Int, NEW b \in Int, b >= a
  PROVE  Floor(m, b) >= Floor(m, a)
<1>1. CASE m
  BY <1>1 DEF Floor, Better
<1>2. CASE ~m
  <2>1. CASE a <= 100 /\ b <= 100
    BY <1>2, <2>1 DEF Floor
  <2>2. CASE a <= 100 /\ b > 100
    <3>1. Floor(m, b) = Share(b) * b
      BY <1>2, <2>2 DEF Floor
    <3>2. Share(b) * b >= 6000
      BY <2>2 DEF Share
    <3>3. Floor(m, a) \in Int /\ Floor(m, a) <= 1500
      BY <1>2, <2>2 DEF Floor
    <3>4. QED
      BY <3>1, <3>2, <3>3 DEF Share
  <2>3. CASE a > 100
    <3>1. Floor(m, a) = Share(a) * a /\ Floor(m, b) = Share(b) * b
      BY <1>2, <2>3 DEF Floor
    <3>2. Share(b) * b >= Share(a) * a
      BY <2>3 DEF Share
    <3>3. QED
      BY <3>1, <3>2
  <2>4. QED
    BY <2>1, <2>2, <2>3
<1>3. QED
  BY <1>1, <1>2

\* A step that stores no record anew never lowers the floor of one, whatever the ROEs,
\* and whichever stage boundaries the best of them crosses.
THEOREM FloorNeverFalls == Spec => FloorRises
<1>1. GuardInv /\ GuardInv' /\ [Next]_vars
        => [held /\ held' /\ ~Open /\ ~Adopt
              => Floor(momentum', mfe') >= Floor(momentum, mfe)]_vars
  <2> SUFFICES ASSUME GuardInv, GuardInv', Next, held, held', ~Open, ~Adopt
               PROVE  Floor(momentum', mfe') >= Floor(momentum, mfe)
    OBVIOUS
  <2>0. momentum \in BOOLEAN /\ mfe \in Int /\ mfe' \in Int /\ TypeOK
    BY DEF GuardInv, TypeOK
  <2>1. momentum' = momentum /\ mfe' >= mfe
    <3>1. CASE Judges
      BY <3>1, <2>0, JudgesFacts, JudgeFacts
    <3>2. CASE Order
      BY <3>2 DEF Order
    <3>3. CASE Closed \/ Prune
      BY <3>3 DEF Closed, Prune, NoRecord
    <3>4. CASE UNCHANGED <<momentum, mfe>>
      BY <3>4, <2>0
    <3>5. QED
      BY <3>1, <3>2, <3>3, <3>4 DEF Next, FeedStep, BookTicker, GrowOld, GuardStep,
         Judges, Ask, ScanOthers, Block, Wake, SentinelStep, SentinelClose, SentinelCloseOthers,
         RestStep, Reverse, CloseFailed, Unlock, GuardGoesOn, SentinelGoesOn,
         OrderFailed, FindMissing, CorrectAmount, TimeBarrier, recordVars
  <2>2. QED
    BY <2>0, <2>1, FloorMonotone
<1>2. QED
  BY <1>1, InvInit, InvStep, PTL DEF Spec, FloorRises

----------------------------------------------------------------------------
(* Who waits for whom *)

\* A turn of the RiskGuard starts without a lock of its own, as it executes nothing.
LEMMA JudgeLoops ==
  ASSUME WaitsEnd, NEW r, NEW cvd, Judge(r, cvd), guard # "executing",
         sentinel' = sentinel, blocked' = {}, driven'
  PROVE  WaitsEnd'
BY DEF Judge, WaitsEnd

LEMMA WaitsStep ==
  ASSUME TypeOK, WaitsEnd, [Next]_vars
  PROVE  WaitsEnd'
<1>1. CASE Scan
  BY <1>1, JudgeLoops DEF Scan, JudgeMarket, WaitsEnd, TypeOK
<1>2. CASE Answer
  BY <1>2, JudgeLoops DEF Answer, AnswerPrice, AnswerError, AnswerPolled, JudgeMarket
<1>3. CASE Ask \/ ScanOthers \/ Wake
  BY <1>3 DEF Ask, ScanOthers, Wake, WaitsEnd
<1>4. ASSUME NEW t \in PoolTasks, Block(t) PROVE WaitsEnd'
  <2>1. guard' = "asking" /\ blocked' # {} /\ UNCHANGED <<closer, guard, sentinel>>
    BY <1>4 DEF Block
  <2>2. QED
    BY <2>1 DEF WaitsEnd
<1>5. CASE SentinelStep
  BY <1>5 DEF SentinelStep, SentinelClose, SentinelCloseOthers, ShardFree, WaitsEnd
<1>6. CASE Closed \/ CloseFailed
  BY <1>6 DEF Closed, CloseFailed, ShardFree, WaitsEnd
<1>7. CASE Unlock \/ Open \/ Adopt \/ Prune \/ Reverse
  BY <1>7 DEF Unlock, Open, Adopt, Prune, Reverse, loopVars, WaitsEnd
<1>8. CASE GuardGoesOn \/ SentinelGoesOn
  BY <1>8 DEF GuardGoesOn, SentinelGoesOn, WaitsEnd
<1>9. CASE UNCHANGED <<closer, guard, sentinel, blocked, driven>>
  BY <1>9 DEF WaitsEnd
<1>10. QED
  BY <1>1, <1>2, <1>3, <1>4, <1>5, <1>6, <1>7, <1>8, <1>9
  DEF Next, vars, loopVars, FeedStep, BookTicker, GrowOld, GuardStep, RestStep, Order,
      OrderFailed, FindMissing, CorrectAmount, TimeBarrier

\* However many tasks there are and whichever run into the shards, every lock a loop
\* holds is for a close that loop is executing, no task stays blocked once the call is
\* over, and the driver goes unpolled only while some task is blocked.
THEOREM SomebodyIsAtWork == Spec => []WaitsEnd
<1>1. Init => WaitsEnd
  BY DEF Init, WaitsEnd
<1>2. TypeOK /\ WaitsEnd /\ [Next]_vars => WaitsEnd'
  BY WaitsStep
<1>3. QED
  BY <1>1, <1>2, TypeCorrect, PTL DEF Spec

=============================================================================
