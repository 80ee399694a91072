-------------------------- MODULE CommandPathProofs --------------------------
(***************************************************************************)
(* The bisection of LaunchPlanning, for every thinning density curve,      *)
(* every target, every terrain and every number of iterations; what it     *)
(* says of the plan that is sent to kOS, since the planning of a launch    *)
(* goes on inside CommandPath as LaunchPlanning describes it; and, for     *)
(* every command, what becomes of it on the way to kOS and of the answer   *)
(* on the way back, with the envelopes that both travel in.                *)
(***************************************************************************)
EXTENDS CommandPath, Recursion, FiniteSetTheorems, SequenceTheorems, TLAPS

(* The mean of two whole numbers, rounded down, is between them.           *)
LEMMA MeanBetween ==
  ASSUME NEW x \in Int, NEW y \in Int
  PROVE  /\ x <= y => x <= bracket_mid(x, y) /\ bracket_mid(x, y) <= y
         /\ y <= x => y <= bracket_mid(x, y) /\ bracket_mid(x, y) <= x
  BY DEF bracket_mid

USE PlanAssumption

(* Which way up the bracket is, and that it stays within its first ends.   *)
Ordered ==
  Solving =>
    IF terrain <= depth
    THEN terrain <= a /\ a <= b /\ b <= depth
    ELSE depth <= b /\ b <= a /\ a <= terrain

(* Only a body with an atmosphere is solved for.                           *)
SolvesAir == step = "solve" => air

PlanInv == TypeOK /\ SolvesAir /\ Ordered /\ SplitBracketed /\ EntryPlaced

(* A midpoint is a known altitude between the two ends.                    *)
LEMMA MidBetween ==
  ASSUME NEW x \in Altitudes, NEW y \in Altitudes
  PROVE  /\ bracket_mid(x, y) \in Altitudes
         /\ x <= y => x <= bracket_mid(x, y) /\ bracket_mid(x, y) <= y
         /\ y <= x => y <= bracket_mid(x, y) /\ bracket_mid(x, y) <= x
<1>1. bracket_mid(x, y) \in Altitudes
  BY Zenon
<1>2. x \in Int /\ y \in Int
  OBVIOUS
<1>. QED
  BY <1>1, <1>2, MeanBetween

LEMMA HighestOfTwo ==
  ASSUME NEW x \in Int, NEW y \in Int
  PROVE  Highest({x, y}) \in {x, y}
<1>1. \E h \in {x, y} : \A g \in {x, y} : g <= h
  <2>1. CASE x <= y
    BY <2>1
  <2>2. CASE y <= x
    BY <2>2
  <2>. QED
    BY <2>1, <2>2
<1>. QED
  BY <1>1 DEF Highest

LEMMA InitPlanInv == Init => PlanInv
<1>. SUFFICES ASSUME Init PROVE PlanInv
  OBVIOUS
<1>1. TypeOK
  BY DEF Init, TypeOK
<1>2. step = "survey"
  BY DEF Init
<1>. QED
  BY <1>1, <1>2 DEF PlanInv, SolvesAir, Ordered, SplitBracketed, EntryPlaced, Solving

LEMMA SurveyPlanInv == PlanInv /\ Survey => PlanInv'
<1>. SUFFICES ASSUME PlanInv, Survey PROVE PlanInv'
  OBVIOUS
<1>1. terrain' \in Altitudes
  BY HighestOfTwo DEF Survey
<1>2. UNCHANGED body /\ TypeOK
  BY DEF Survey, PlanInv
<1>3. CASE air
  <2>1. step' = "solve" /\ a' = terrain' /\ b' = depth /\ left' = Iters /\ entry' = entry
    BY <1>3 DEF Survey
  <2>2. TypeOK'
    BY <1>1, <1>2, <2>1 DEF TypeOK, body
  <2>3. terrain' \in Int /\ depth \in Int /\ depth' = depth
    BY <1>1, <1>2 DEF TypeOK, body
  <2>4. Ordered'
    BY <2>1, <2>3 DEF Ordered
  <2>5. SplitBracketed'
    BY <2>1, <2>3 DEF SplitBracketed
  <2>6. EntryPlaced'
    BY <2>1 DEF EntryPlaced
  <2>7. SolvesAir'
    BY <1>2, <1>3 DEF SolvesAir, body
  <2>. QED
    BY <2>2, <2>4, <2>5, <2>6, <2>7 DEF PlanInv
<1>4. CASE ~air
  <2>1. step' = "done" /\ entry' = terrain' /\ a' = a /\ b' = b /\ left' = left /\ ~air'
    BY <1>2, <1>4 DEF Survey, body
  <2>2. TypeOK'
    BY <1>1, <1>2, <2>1 DEF TypeOK, body
  <2>. QED
    BY <2>1, <2>2 DEF PlanInv, SolvesAir, Ordered, SplitBracketed, EntryPlaced, Solving
<1>. QED
  BY <1>3, <1>4

(* Halving the bracket keeps what is known about its two sides.            *)
LEMMA BisectPlanInv == PlanInv /\ Bisect => PlanInv'
<1>. SUFFICES ASSUME PlanInv, Bisect PROVE PlanInv'
  OBVIOUS
<1>. DEFINE mid == bracket_mid(a, b)
<1>1. /\ step = "solve" /\ step' = "solve" /\ left > 0 /\ left' = left - 1
      /\ air' = air /\ rho' = rho /\ depth' = depth /\ target' = target
      /\ terrain' = terrain /\ entry' = entry
  BY DEF Bisect, body
<1>2. \/ rho[mid] > target /\ a' = mid /\ b' = b
      \/ rho[mid] <= target /\ b' = mid /\ a' = a
  BY DEF Bisect
<1>3. TypeOK /\ a \in Altitudes /\ b \in Altitudes
  BY DEF PlanInv, TypeOK
<1>4. /\ mid \in Altitudes
      /\ a <= b => a <= mid /\ mid <= b
      /\ b <= a => b <= mid /\ mid <= a
  BY <1>3, MidBetween
<1>. HIDE DEF mid
<1>5. /\ a \in Int /\ b \in Int /\ mid \in Int /\ terrain \in Int /\ depth \in Int
      /\ target \in Int
      /\ \A x \in Altitudes : x \in Int /\ rho[x] \in Int
      /\ \A x, y \in Altitudes : x <= y => rho[x] >= rho[y]
  BY <1>3, <1>4 DEF TypeOK
<1>6. TypeOK'
  <2>1. left' \in 0..Iters
    BY <1>1, <1>3 DEF TypeOK
  <2>. QED
    BY <1>1, <1>2, <1>3, <1>4, <2>1 DEF TypeOK
<1>7. Ordered'
  <2>1. CASE Solving
    BY <1>1, <1>2, <1>4, <1>5, <2>1 DEF PlanInv, Ordered, Solving
  <2>2. CASE ~Solving
    BY <1>1, <2>2 DEF Ordered, Solving
  <2>. QED
    BY <2>1, <2>2
<1>8. SplitBracketed'
  <2>. SUFFICES ASSUME Solving
                PROVE  /\ \A x \in Altitudes : terrain <= x /\ x < a' => rho[x] > target
                       /\ \A x \in Altitudes : b' < x /\ x <= depth => rho[x] <= target
    BY <1>1 DEF SplitBracketed, Solving
  <2>1. /\ \A x \in Altitudes : terrain <= x /\ x < a => rho[x] > target
        /\ \A x \in Altitudes : b < x /\ x <= depth => rho[x] <= target
    BY DEF PlanInv, SplitBracketed
  <2>2. CASE rho[mid] > target /\ a' = mid /\ b' = b
    <3>1. ASSUME NEW x \in Altitudes, x < mid PROVE rho[x] > target
      <4>1. rho[x] >= rho[mid] /\ rho[x] \in Int /\ rho[mid] \in Int
        BY <1>4, <1>5, <3>1
      <4>. QED
        BY <1>5, <2>2, <4>1
    <3>. QED
      BY <2>1, <2>2, <3>1
  <2>3. CASE rho[mid] <= target /\ b' = mid /\ a' = a
    <3>1. ASSUME NEW x \in Altitudes, mid < x PROVE rho[x] <= target
      <4>1. rho[x] <= rho[mid] /\ rho[x] \in Int /\ rho[mid] \in Int
        BY <1>4, <1>5, <3>1
      <4>. QED
        BY <1>5, <2>3, <4>1
    <3>. QED
      BY <2>1, <2>3, <3>1
  <2>. QED
    BY <1>2, <2>2, <2>3
<1>9. EntryPlaced' /\ SolvesAir'
  BY <1>1 DEF EntryPlaced, SolvesAir, PlanInv
<1>. QED
  BY <1>6, <1>7, <1>8, <1>9 DEF PlanInv

LEMMA AnswerPlanInv == PlanInv /\ Answer => PlanInv'
<1>. SUFFICES ASSUME PlanInv, Answer PROVE PlanInv'
  OBVIOUS
<1>. DEFINE mid == bracket_mid(a, b)
<1>1. /\ step = "solve" /\ step' = "done"
      /\ air' = air /\ rho' = rho /\ depth' = depth /\ target' = target
      /\ terrain' = terrain /\ a' = a /\ b' = b /\ left' = left
      /\ entry' = IF mid > terrain THEN mid ELSE terrain
  BY DEF Answer, body
<1>2. TypeOK /\ a \in Altitudes /\ b \in Altitudes
  BY DEF PlanInv, TypeOK
<1>3. /\ mid \in Altitudes
      /\ a <= b => a <= mid /\ mid <= b
      /\ b <= a => b <= mid /\ mid <= a
  BY <1>2, MidBetween
<1>. HIDE DEF mid
<1>4. a \in Int /\ b \in Int /\ mid \in Int /\ terrain \in Int /\ depth \in Int
  BY <1>2, <1>3 DEF TypeOK
<1>5. TypeOK'
  BY <1>1, <1>2, <1>3 DEF TypeOK
<1>6. Ordered' /\ SplitBracketed'
  BY <1>1 DEF PlanInv, Ordered, SplitBracketed, Solving
<1>7. EntryPlaced'
  <2>1. CASE air /\ terrain <= depth
    <3>1. terrain <= a /\ a <= b /\ b <= depth
      BY <1>1, <2>1 DEF PlanInv, Ordered, Solving
    <3>2. a <= entry' /\ entry' <= b
      BY <1>1, <1>3, <1>4, <3>1
    <3>. QED
      BY <1>1, <2>1, <3>1, <3>2 DEF EntryPlaced
  <2>2. CASE air /\ ~(terrain <= depth)
    <3>1. b <= a /\ a <= terrain
      BY <1>1, <2>2 DEF PlanInv, Ordered, Solving
    <3>2. entry' = terrain
      BY <1>1, <1>3, <1>4, <3>1
    <3>. QED
      BY <1>1, <2>2, <3>2 DEF EntryPlaced
  <2>3. air
    BY <1>1 DEF PlanInv, SolvesAir
  <2>. QED
    BY <2>1, <2>2, <2>3
<1>8. SolvesAir'
  BY <1>1 DEF SolvesAir
<1>. QED
  BY <1>5, <1>6, <1>7, <1>8 DEF PlanInv

LEMMA NextPlanInv == PlanInv /\ [Next]_vars => PlanInv'
<1>. SUFFICES ASSUME PlanInv, [Next]_vars PROVE PlanInv'
  OBVIOUS
<1>1. CASE Fail
  BY <1>1 DEF Fail, PlanInv, TypeOK, SolvesAir, Ordered, SplitBracketed, EntryPlaced,
              Solving, body
<1>2. CASE UNCHANGED vars
  BY <1>2 DEF vars, PlanInv, TypeOK, SolvesAir, Ordered, SplitBracketed, EntryPlaced,
              Solving, body
<1>. QED
  BY <1>1, <1>2, SurveyPlanInv, BisectPlanInv, AnswerPlanInv DEF Next

LEMMA PlanInvAlways == Spec => []PlanInv
  BY InitPlanInv, NextPlanInv, PTL DEF Spec

(* The altitudes planned with are always ones where the density is known,  *)
(* and the bisection never runs past its iterations.                       *)
THEOREM TypeCorrect == Spec => []TypeOK
<1>1. PlanInv => TypeOK
  BY DEF PlanInv
<1>. QED
  BY <1>1, PlanInvAlways, PTL

(* At every step of the bisection the air is denser than the target below  *)
(* the bracket and no denser above it.                                     *)
THEOREM SplitAlwaysBracketed == Spec => []SplitBracketed
<1>1. PlanInv => SplitBracketed
  BY DEF PlanInv
<1>. QED
  BY <1>1, PlanInvAlways, PTL

(* Phase 2 is entered within the last bracket, and at the terrain's height *)
(* when the terrain rises above the atmosphere or there is none.           *)
THEOREM EntryAlwaysPlaced == Spec => []EntryPlaced
<1>1. PlanInv => EntryPlaced
  BY DEF PlanInv
<1>. QED
  BY <1>1, PlanInvAlways, PTL

-----------------------------------------------------------------------------
(* How narrow the bracket gets.                                            *)
LEMMA PowerOf2Is ==
  /\ PowerOf2[0] = 1
  /\ \A n \in Nat : PowerOf2[n + 1] = 2 * PowerOf2[n] /\ PowerOf2[n] \in Nat \ {0}
<1>. DEFINE Positive == Nat \ {0}
            next == [x \in Positive |-> 2 * x]
<1>1. next \in [Positive -> Positive] /\ 1 \in Positive
  OBVIOUS
<1>. HIDE DEF next
<1>2. PICK r \in [Nat -> Positive] : Recurses(r, 1, next)
  BY <1>1, RecursionExists
<1>3. r = [n \in Nat |-> IF n = 0 THEN 1 ELSE 2 * r[n - 1]]
  <2>1. ASSUME NEW n \in Nat PROVE r[n] = IF n = 0 THEN 1 ELSE 2 * r[n - 1]
    <3>1. CASE n = 0
      BY <1>2, <3>1 DEF Recurses
    <3>2. CASE n # 0
      <4>1. n - 1 \in Nat /\ (n - 1) + 1 = n
        BY <3>2
      <4>2. r[n] = next[r[n - 1]] /\ r[n - 1] \in Positive
        BY <1>2, <4>1 DEF Recurses
      <4>. QED
        BY <3>2, <4>2 DEF next
    <3>. QED
      BY <3>1, <3>2
  <2>. QED
    BY <2>1
<1>4. PowerOf2 = [n \in Nat |-> IF n = 0 THEN 1 ELSE 2 * PowerOf2[n - 1]]
  BY <1>3, Zenon DEF PowerOf2
<1>5. ASSUME NEW n \in Nat PROVE PowerOf2[n + 1] = 2 * PowerOf2[n]
  <2>1. n + 1 \in Nat /\ n + 1 # 0 /\ (n + 1) - 1 = n
    OBVIOUS
  <2>. QED
    BY <1>4, <2>1
<1>6. ASSUME NEW n \in Nat PROVE PowerOf2[n] \in Positive
  <2>. DEFINE Not == {m \in Nat : PowerOf2[m] \notin Positive}
  <2>1. SUFFICES ASSUME Not # {} PROVE FALSE
    OBVIOUS
  <2>2. PICK m \in Not : \A k \in Not : m <= k
    BY <2>1, LeastMember
  <2>3. m # 0
    BY <1>4
  <2>4. m - 1 \in Nat /\ (m - 1) + 1 = m /\ PowerOf2[m - 1] \in Positive
    BY <2>2, <2>3
  <2>5. PowerOf2[m] = 2 * PowerOf2[m - 1]
    BY <1>5, <2>4
  <2>. QED
    BY <2>2, <2>4, <2>5
<1>. QED
  BY <1>4, <1>5, <1>6

(* Half the width, twice the factor.                                       *)
LEMMA HalfTimesTwice ==
  ASSUME NEW w \in Int, NEW v \in Int, NEW p \in Nat, 2 * v <= w
  PROVE  v * (2 * p) <= w * p
<1>. DEFINE d == w - 2 * v
<1>1. d \in Nat
  OBVIOUS
<1>. HIDE DEF d
<1>2. d * p >= 0
  BY <1>1
<1>3. d * p = w * p - v * (2 * p)
  BY DEF d
<1>4. w * p \in Int /\ v * (2 * p) \in Int
  OBVIOUS
<1>. QED
  BY <1>2, <1>3, <1>4

LEMMA Halves ==
  ASSUME NEW x \in Int, NEW y \in Int, x < y
  PROVE  /\ 2 * (y - bracket_mid(x, y) - 1) <= y - x - 1
         /\ 2 * (bracket_mid(x, y) - x - 1) <= y - x - 1
         /\ bracket_mid(x, y) \in Int
  BY DEF bracket_mid

LEMMA BisectNarrow == PlanInv /\ BracketNarrow /\ Bisect => BracketNarrow'
<1>. SUFFICES ASSUME PlanInv, BracketNarrow, Bisect, Solving, terrain <= depth, a' # b'
              PROVE  (b' - a' - 1) * PowerOf2[Iters - left'] < depth - terrain
  BY DEF BracketNarrow, Bisect, Solving, body
<1>. DEFINE mid == bracket_mid(a, b)
            n == Iters - left
            w == b - a - 1
            v == b' - a' - 1
<1>1. /\ a \in Int /\ b \in Int /\ terrain \in Int /\ depth \in Int
      /\ n \in Nat /\ Iters - left' = n + 1
  BY DEF PlanInv, TypeOK, Bisect
<1>2. (a' = mid /\ b' = b) \/ (b' = mid /\ a' = a)
  BY DEF Bisect
<1>3. a <= b
  BY DEF PlanInv, Ordered
<1>4. a # b
  <2>1. a = b => mid = a
    BY <1>1 DEF bracket_mid
  <2>. HIDE DEF mid
  <2>. QED
    BY <1>2, <2>1
<1>5. w \in Int /\ v \in Int /\ 2 * v <= w
  <2>1. a < b
    BY <1>1, <1>3, <1>4
  <2>2. mid \in Int /\ 2 * (b - mid - 1) <= b - a - 1 /\ 2 * (mid - a - 1) <= b - a - 1
    BY <1>1, <2>1, Halves
  <2>. HIDE DEF mid
  <2>. QED
    BY <1>1, <1>2, <2>2
<1>6. PowerOf2[n] \in Nat /\ PowerOf2[n + 1] = 2 * PowerOf2[n]
  BY <1>1, PowerOf2Is
<1>7. w * PowerOf2[n] < depth - terrain
  BY <1>4 DEF BracketNarrow
<1>. HIDE DEF n, w, v
<1>8. v * (2 * PowerOf2[n]) <= w * PowerOf2[n]
  BY <1>5, <1>6, HalfTimesTwice
<1>9. v * PowerOf2[Iters - left'] < depth - terrain
  <2>1. w * PowerOf2[n] \in Int /\ v * (2 * PowerOf2[n]) \in Int
    BY <1>5, <1>6
  <2>. QED
    BY <1>1, <1>6, <1>7, <1>8, <2>1
<1>. QED
  BY <1>9 DEF v

LEMMA NextNarrow == PlanInv /\ BracketNarrow /\ [Next]_vars => BracketNarrow'
<1>. SUFFICES ASSUME PlanInv, BracketNarrow, [Next]_vars PROVE BracketNarrow'
  OBVIOUS
<1>1. CASE Survey
  <2>1. CASE air
    <3>1. a' = terrain' /\ b' = depth' /\ Iters - left' = 0
      BY <1>1, <2>1 DEF Survey, body
    <3>2. terrain' \in Int /\ depth' \in Int
      BY <1>1, SurveyPlanInv DEF PlanInv, TypeOK
    <3>. QED
      BY <3>1, <3>2, PowerOf2Is DEF BracketNarrow
  <2>2. CASE ~air
    BY <1>1, <2>2 DEF Survey, body, BracketNarrow, Solving
  <2>. QED
    BY <2>1, <2>2
<1>2. CASE Answer \/ Fail
  BY <1>2 DEF Answer, Fail, BracketNarrow, Solving, body
<1>3. CASE UNCHANGED vars
  BY <1>3 DEF vars, BracketNarrow, Solving, body
<1>. QED
  BY <1>1, <1>2, <1>3, BisectNarrow DEF Next

(* Each iteration halves what the split may be off by, which is what the   *)
(* comment at launch_planning.rs:17-19 counts on for its 25.               *)
THEOREM BracketAlwaysNarrow == Spec => []BracketNarrow
<1>1. Init => BracketNarrow
  BY DEF Init, BracketNarrow, Solving
<1>. QED
  BY <1>1, InitPlanInv, NextPlanInv, NextNarrow, PTL DEF Spec

-----------------------------------------------------------------------------
(* The planning inside the way of a command.                               *)
LEMMA StepPlans == [PathNext]_pathVars => [Next]_vars
<1>. SUFFICES ASSUME [PathNext]_pathVars PROVE [Next]_vars
  OBVIOUS
<1>1. CASE PlanLaunch
  BY <1>1 DEF PlanLaunch
<1>2. CASE UNCHANGED plan
  BY <1>2 DEF plan, vars
<1>3. PlanLaunch \/ UNCHANGED plan
  BY DEF PathNext, pathVars, TakeCommand, PlanCirc, UsePlan, PlanFailed, Send, HandleMessage, Hear,
         KeepPlan
<1>. QED
  BY <1>1, <1>2, <1>3

(* run_dispatcher plans with plan_launch and nothing else: no other step   *)
(* of a command's way touches the bracket or its answer.                   *)
THEOREM PathPlans == PathSpec => Spec
<1>1. PathInit => Init
  BY DEF PathInit
<1>. QED
  BY <1>1, StepPlans, PTL DEF PathSpec, Spec

(* So the altitude sent to kOS is bracketed by the density of the body ... *)
THEOREM SentSplitBracketed == PathSpec => []SplitBracketed
  BY PathPlans, SplitAlwaysBracketed, PTL

(* ... to within what the iterations promise ...                           *)
THEOREM SentBracketNarrow == PathSpec => []BracketNarrow
  BY PathPlans, BracketAlwaysNarrow, PTL

(* ... and never below the terrain to clear.                               *)
THEOREM SentEntryPlaced == PathSpec => []EntryPlaced
  BY PathPlans, EntryAlwaysPlaced, PTL
-----------------------------------------------------------------------------
(* JSON values: what kind each one is, and what is found in an object.     *)
LEMMA Kinds ==
  /\ \A n : Is(Num(n), "num") /\ Num(n).num = n
  /\ \A s : Is(Str(s), "str") /\ Str(s).str = s
  /\ \A v : Is(Bool(v), "bool") /\ Bool(v).bool = v
  /\ \A f : Is(Obj(f), "obj") /\ Obj(f).obj = f
  /\ \A t : Is(Arr(t), "arr") /\ Arr(t).arr = t
  /\ Is(Null, "null")
  BY DEF Is, Num, Str, Bool, Obj, Arr, Null

LEMMA OneKind == \A x, t, u : Is(x, t) /\ Is(x, u) => t = u
<1>. SUFFICES ASSUME NEW x, NEW t, NEW u, Is(x, t), Is(x, u) PROVE t = u
  OBVIOUS
<1>1. {t} = {u}
  BY DEF Is
<1>. QED
  BY <1>1

LEMMA GetIs ==
  ASSUME NEW f, NEW key
  PROVE  Get(Obj(f), key) = IF key \in DOMAIN f THEN f[key] ELSE Null
  BY Kinds DEF Get

LEMMA StrOrIs == \A s, default : StrOr(Str(s), default) = s
  BY Kinds DEF StrOr

(* What kIPC takes as it is.                                               *)
LEMMA PrimitiveIs ==
  ASSUME NEW x, Primitive(x)
  PROVE  Flat(x) /\ Unwrapped(x) = x
  BY DEF Flat, Unwrapped

LEMMA Primitives ==
  /\ \A n : Primitive(Num(n))
  /\ \A s : Primitive(Str(s))
  /\ Primitive(Null)
  /\ \A key, x : Typed(key, x) => Primitive(x)
  BY Kinds DEF Primitive, Typed

(* A string kOS reads is one that was sent.                                *)
LEMMA StringSent ==
  ASSUME NEW x, Is(x, "str") \/ Is(Unwrapped(x), "str")
  PROVE  Unwrapped(x) = x
<1>1. \A y : ~Is([lex |-> y], "str") /\ ~Is([list |-> y], "str")
  BY DEF Is
<1>2. Primitive(x)
  BY <1>1 DEF Unwrapped, Primitive
<1>. QED
  BY <1>2, PrimitiveIs

(* An envelope, and what is found in it when it is opened.                 *)
LEMMA EnvelopeIs ==
  ASSUME NEW w
  PROVE  /\ Enveloped(encode_dict_value(w))
         /\ Get(encode_dict_value(w), "type") = Str("dict")
         /\ Get(encode_dict_value(w), "data") = w
         /\ encode_dict_value(w).obj.data = w
         /\ ~Primitive(encode_dict_value(w))
<1>. DEFINE f == [type |-> Str("dict"), data |-> w, keys |-> Arr(<<>>), values |-> Arr(<<>>)]
<1>1. DOMAIN f = {"type", "data", "keys", "values"} /\ f.type = Str("dict") /\ f.data = w
  OBVIOUS
<1>2. encode_dict_value(w) = Obj(f)
  BY DEF encode_dict_value
<1>. HIDE DEF f
<1>3. Get(Obj(f), "type") = Str("dict") /\ Get(Obj(f), "data") = w
  BY <1>1, GetIs
<1>4. ~Primitive(Obj(f))
  BY Kinds, OneKind DEF Primitive
<1>. QED
  BY <1>1, <1>2, <1>3, <1>4, Kinds DEF Enveloped

LEMMA OpenedIs ==
  ASSUME NEW w
  PROVE  Deserialized(encode_dict_value(w)) =
           IF \A k \in DOMAIN w.obj : Flat(w.obj[k])
           THEN [lex |-> [k \in DOMAIN w.obj |-> Unwrapped(w.obj[k])]] ELSE Null
<1>1. Enveloped(encode_dict_value(w)) /\ encode_dict_value(w).obj.data = w
  BY EnvelopeIs
<1>. QED
  BY <1>1, Zenon DEF Deserialized

LEMMA LexIs == \A f : [lex |-> f] # Null /\ Is([lex |-> f], "lex") /\ [lex |-> f].lex = f
  BY DEF Null, Is

(* A launch is opened down to its parameters.                              *)
LEMMA LaunchOpened ==
  ASSUME NEW cfg, \A k \in DOMAIN cfg : Primitive(cfg[k])
  PROVE  \E f : /\ Deserialized(encode_dict_value(LaunchCommand(encode_dict_value(Obj(cfg))))) = [lex |-> f]
                /\ DOMAIN f = {"op", "path", "args"}
                /\ f["op"] = Str("run_script") /\ f["path"] = Str("launch.ks") /\ f["args"] = [lex |-> cfg]
<1>. DEFINE args == encode_dict_value(Obj(cfg))
            g == [op |-> Str("run_script"), path |-> Str("launch.ks"), args |-> args]
<1>1. /\ DOMAIN g = {"op", "path", "args"}
      /\ g["op"] = Str("run_script") /\ g["path"] = Str("launch.ks") /\ g["args"] = args
      /\ LaunchCommand(args) = Obj(g)
  BY DEF LaunchCommand
<1>2. Enveloped(args) /\ ~Primitive(args) /\ args.obj.data.obj = cfg
  BY EnvelopeIs, Kinds
<1>. HIDE DEF args, g
<1>3. Flat(args) /\ Unwrapped(args) = [lex |-> cfg]
  BY <1>2 DEF Flat, Unwrapped
<1>4. \A s : Flat(Str(s)) /\ Unwrapped(Str(s)) = Str(s)
  BY Primitives, PrimitiveIs
<1>5. \A k \in DOMAIN g : Flat(g[k])
  BY <1>1, <1>3, <1>4
<1>. DEFINE f == [k \in DOMAIN g |-> Unwrapped(g[k])]
<1>6. Deserialized(encode_dict_value(Obj(g))) = [lex |-> f]
  BY <1>5, OpenedIs, Kinds
<1>7. /\ DOMAIN f = {"op", "path", "args"}
      /\ f["op"] = Str("run_script") /\ f["path"] = Str("launch.ks") /\ f["args"] = [lex |-> cfg]
  BY <1>1, <1>3, <1>4
<1>. QED
  BY <1>1, <1>6, <1>7 DEF args

-----------------------------------------------------------------------------
(* The way back: an event is the same in either shape of its envelope.     *)
LEMMA SetToSeqIs ==
  ASSUME NEW S, IsFiniteSet(S)
  PROVE  /\ SetToSeq(S) \in [1..Cardinality(S) -> S] /\ Cardinality(S) \in Nat
         /\ \A i, j \in 1..Cardinality(S) : SetToSeq(S)[i] = SetToSeq(S)[j] => i = j
         /\ \A x \in S : \E i \in 1..Cardinality(S) : SetToSeq(S)[i] = x
<1>. DEFINE n == Cardinality(S)
            f == SetToSeq(S)
<1>1. n \in Nat /\ ExistsBijection(1..n, S)
  BY FS_CardinalityType
<1>2. \E g \in [1..n -> S] : IsInjective(g)
  BY <1>1 DEF ExistsBijection, Bijection, Injection
<1>3. f \in [1..n -> S] /\ IsInjective(f)
  BY <1>2 DEF SetToSeq
<1>4. f \in Injection(1..n, S) /\ IsFiniteSet(1..n) /\ Cardinality(1..n) = n
  BY <1>1, <1>3, FS_Interval DEF Injection
<1>. HIDE DEF f
<1>5. f \in Surjection(1..n, S)
  BY <1>4, FS_Injection
<1>. QED
  BY <1>1, <1>3, <1>5 DEF IsInjective, Surjection, f

LEMMA MaxOfOne == \A i \in Int : Max({i}) = i
  BY DEF Max

LEMMA RoundTrip ==
  ASSUME NEW S, IsFiniteSet(S), S # {}, NEW e, e = [k \in S |-> e[k]],
         NEW raw \in Serialized(e)
  PROVE  decode_dict(raw) = Obj(e)
<1>. DEFINE names == SetToSeq(DOMAIN e)
            keys == [i \in DOMAIN names |-> Str(names[i])]
            values == [i \in DOMAIN names |-> e[names[i]]]
            n == Cardinality(S)
<1>1. DOMAIN e = S
  OBVIOUS
<1>2. CASE raw = encode_dict_value(Obj(e))
  <2>1. Get(raw, "type") = Str("dict") /\ Get(raw, "data") = Obj(e)
    BY <1>2, EnvelopeIs
  <2>. QED
    BY <1>1, <2>1, Kinds DEF decode_dict
<1>3. CASE raw = Obj([type |-> Str("dict"), data |-> Obj(<<>>), keys |-> Arr(keys), values |-> Arr(values)])
  <2>1. /\ names \in [1..n -> S] /\ n \in Nat
        /\ \A i, j \in 1..n : names[i] = names[j] => i = j
        /\ \A x \in S : \E i \in 1..n : names[i] = x
    BY <1>1, SetToSeqIs
  <2>. HIDE DEF names
  <2>2. /\ DOMAIN keys = 1..n /\ DOMAIN values = 1..n
        /\ Len(keys) = n /\ Len(values) = n
        /\ \A i \in 1..n : keys[i] = Str(names[i]) /\ values[i] = e[names[i]]
    BY <2>1
  <2>. DEFINE f == [type |-> Str("dict"), data |-> Obj(<<>>), keys |-> Arr(keys), values |-> Arr(values)]
  <2>3. /\ DOMAIN f = {"type", "data", "keys", "values"} /\ f.type = Str("dict")
        /\ f.data = Obj(<<>>) /\ f.keys = Arr(keys) /\ f.values = Arr(values)
        /\ raw = Obj(f)
    BY <1>3
  <2>. HIDE DEF f, keys, values
  <2>4. /\ Get(raw, "type") = Str("dict") /\ Get(raw, "data") = Obj(<<>>)
        /\ Get(raw, "keys") = Arr(keys) /\ Get(raw, "values") = Arr(values)
    BY <2>3, GetIs
  <2>5. DOMAIN Obj(<<>>).obj = {}
    BY Kinds
  <2>6. \A i \in 1..n : Is(keys[i], "str") /\ keys[i].str = names[i]
    BY <2>2, Kinds
  <2>7. decode_dict(raw) = Obj(Paired(keys, values))
    BY <2>2, <2>4, <2>5, <2>6, Kinds DEF decode_dict
  <2>8. {keys[i].str : i \in DOMAIN keys} = S
    BY <2>1, <2>2, <2>6
  <2>9. ASSUME NEW k \in S PROVE values[Max({i \in DOMAIN keys : keys[i].str = k})] = e[k]
    <3>1. PICK j \in 1..n : names[j] = k
      BY <2>1
    <3>2. {i \in DOMAIN keys : keys[i].str = k} = {j}
      BY <2>1, <2>2, <2>6, <3>1
    <3>3. Max({j}) = j
      BY MaxOfOne
    <3>. QED
      BY <2>2, <3>1, <3>2, <3>3
  <2>10. Paired(keys, values) = [k \in S |-> e[k]]
    BY <2>8, <2>9 DEF Paired
  <2>. QED
    BY <2>7, <2>10
<1>. QED
  BY <1>2, <1>3 DEF Serialized

LEMMA FewIsFinite ==
  \A p, q, r, s, t : IsFiniteSet({p, q}) /\ IsFiniteSet({p, q, r, s}) /\ IsFiniteSet({p, q, r, s, t})
<1>. SUFFICES ASSUME NEW p, NEW q, NEW r, NEW s, NEW t
              PROVE  IsFiniteSet({p, q}) /\ IsFiniteSet({p, q, r, s}) /\ IsFiniteSet({p, q, r, s, t})
  OBVIOUS
<1>1. IsFiniteSet({p})
  BY FS_Singleton
<1>2. IsFiniteSet({p} \cup {q})
  BY <1>1, FS_AddElement
<1>3. IsFiniteSet(({p} \cup {q}) \cup {r})
  BY <1>2, FS_AddElement
<1>4. IsFiniteSet((({p} \cup {q}) \cup {r}) \cup {s})
  BY <1>3, FS_AddElement
<1>5. IsFiniteSet(((({p} \cup {q}) \cup {r}) \cup {s}) \cup {t})
  BY <1>4, FS_AddElement
<1>6. /\ {p, q} = {p} \cup {q} /\ {p, q, r, s} = (({p} \cup {q}) \cup {r}) \cup {s}
      /\ {p, q, r, s, t} = ((({p} \cup {q}) \cup {r}) \cup {s}) \cup {t}
  OBVIOUS
<1>. QED
  BY <1>2, <1>4, <1>5, <1>6

(* What the server hears of the events kOS sends.                          *)

LEMMA AckHeard ==
  ASSUME NEW op, NEW raw \in Serialized(Ack(op))
  PROVE  parse_inbound(raw) = [kind |-> "command_ack", op |-> op]
<1>1. decode_dict(raw) = Obj(Ack(op))
  <2>1. IsFiniteSet({"kind", "op"})
    BY FewIsFinite
  <2>2. Ack(op) = [k \in {"kind", "op"} |-> Ack(op)[k]]
    BY DEF Ack
  <2>. QED
    BY <2>1, <2>2, RoundTrip
<1>2. Get(Obj(Ack(op)), "kind") = Str("command_ack") /\ Get(Obj(Ack(op)), "op") = Str(op)
  BY GetIs DEF Ack
<1>3. /\ StrOr(Str("command_ack"), "") = "command_ack" /\ StrOr(Str(op), "") = op
      /\ Is(Str(op), "str")
  BY StrOrIs, Kinds
<1>. QED
  BY <1>1, <1>2, <1>3 DEF parse_inbound

LEMMA DoneHeard ==
  ASSUME NEW path, NEW raw \in Serialized(Done(path))
  PROVE  parse_inbound(raw) = IF Is(path, "str")
           THEN [kind |-> "script_done", path |-> path.str, boot |-> BootId, ok |-> TRUE, reason |-> ""]
           ELSE Dropped
<1>1. decode_dict(raw) = Obj(Done(path))
  <2>1. IsFiniteSet({"kind", "path", "ok", "boot"})
    BY FewIsFinite
  <2>2. Done(path) = [k \in {"kind", "path", "ok", "boot"} |-> Done(path)[k]]
    BY DEF Done
  <2>. QED
    BY <2>1, <2>2, RoundTrip
<1>2. /\ Get(Obj(Done(path)), "kind") = Str("script_done")
      /\ Get(Obj(Done(path)), "path") = path
      /\ Get(Obj(Done(path)), "boot") = Str(BootId)
      /\ Get(Obj(Done(path)), "ok") = Bool(TRUE)
      /\ Get(Obj(Done(path)), "reason") = Null
  <2>1. /\ DOMAIN Done(path) = {"kind", "path", "ok", "boot"}
        /\ Done(path)["kind"] = Str("script_done") /\ Done(path)["path"] = path
        /\ Done(path)["boot"] = Str(BootId) /\ Done(path)["ok"] = Bool(TRUE)
    BY DEF Done
  <2>2. Get(Obj(Done(path)), "reason") = Null
    BY <2>1, Kinds DEF Get
  <2>. QED
    BY <2>1, <2>2, GetIs
<1>3. /\ BoolOr(Bool(TRUE), TRUE) = TRUE
      /\ StrOr(Str("script_done"), "") = "script_done" /\ (Is(path, "str") => StrOr(path, "") = path.str)
      /\ StrOr(Str(BootId), "") = BootId
  BY StrOrIs, Kinds DEF BoolOr, StrOr
<1>4. StrOr(Null, "") = ""
  BY Kinds, OneKind DEF StrOr
<1>. QED
  BY <1>1, <1>2, <1>3, <1>4 DEF parse_inbound

LEMMA RejectedHeard ==
  ASSUME NEW path, NEW reason, NEW raw \in Serialized(Rejected(path, reason))
  PROVE  parse_inbound(raw) = IF Is(path, "str")
           THEN [kind |-> "script_done", path |-> path.str, boot |-> BootId, ok |-> FALSE, reason |-> reason]
           ELSE Dropped
<1>. DEFINE e == Rejected(path, reason)
<1>1. /\ DOMAIN e = {"kind", "path", "ok", "reason", "boot"}
      /\ e["kind"] = Str("script_done") /\ e["path"] = path /\ e["reason"] = Str(reason)
      /\ e["boot"] = Str(BootId) /\ e["ok"] = Bool(FALSE)
  BY DEF Rejected
<1>2. e = [k \in {"kind", "path", "ok", "reason", "boot"} |-> e[k]]
  BY DEF Rejected
<1>. HIDE DEF e
<1>3. raw \in Serialized(e)
  BY DEF e
<1>4. decode_dict(raw) = Obj(e)
  <2>1. IsFiniteSet({"kind", "path", "ok", "reason", "boot"})
    BY FewIsFinite
  <2>. QED
    BY <1>2, <1>3, <2>1, RoundTrip
<1>5. /\ Get(Obj(e), "kind") = Str("script_done") /\ Get(Obj(e), "path") = path
      /\ Get(Obj(e), "reason") = Str(reason) /\ Get(Obj(e), "boot") = Str(BootId)
      /\ Get(Obj(e), "ok") = Bool(FALSE)
  BY <1>1, GetIs
<1>6. /\ BoolOr(Bool(FALSE), TRUE) = FALSE
      /\ StrOr(Str("script_done"), "") = "script_done" /\ (Is(path, "str") => StrOr(path, "") = path.str)
      /\ StrOr(Str(BootId), "") = BootId /\ StrOr(Str(reason), "") = reason
  BY StrOrIs, Kinds DEF BoolOr, StrOr
<1>. QED
  BY <1>4, <1>5, <1>6 DEF parse_inbound

LEMMA BeatHeard ==
  ASSUME NEW raw \in Serialized(Beat)
  PROVE  parse_inbound(raw) = [kind |-> "heartbeat", boot |-> BootId, path |-> "", active |-> TRUE]
<1>1. decode_dict(raw) = Obj(Beat)
  <2>1. IsFiniteSet({"kind", "path", "boot", "active"})
    BY FewIsFinite
  <2>2. Beat = [k \in {"kind", "path", "boot", "active"} |-> Beat[k]]
    BY DEF Beat
  <2>. QED
    BY <2>1, <2>2, RoundTrip
<1>2. /\ Get(Obj(Beat), "kind") = Str("heartbeat") /\ Get(Obj(Beat), "path") = Str("")
      /\ Get(Obj(Beat), "boot") = Str(BootId) /\ Get(Obj(Beat), "active") = Bool(TRUE)
  <2>1. /\ DOMAIN Beat = {"kind", "path", "boot", "active"}
        /\ Beat["kind"] = Str("heartbeat") /\ Beat["path"] = Str("")
        /\ Beat["boot"] = Str(BootId) /\ Beat["active"] = Bool(TRUE)
    BY DEF Beat
  <2>. QED
    BY <2>1, GetIs
<1>3. /\ BoolOr(Bool(TRUE), FALSE) = TRUE
      /\ StrOr(Str("heartbeat"), "") = "heartbeat" /\ StrOr(Str(""), "") = ""
      /\ StrOr(Str(BootId), "") = BootId /\ Is(Str(BootId), "str")
  BY StrOrIs, Kinds DEF BoolOr
<1>. QED
  BY <1>1, <1>2, <1>3 DEF parse_inbound

-----------------------------------------------------------------------------
(* The way of a command.  What may be sent: the node of a planned          *)
(* circularization, a command as it came, or a launch as it was planned.   *)
Numbers ==
  \A k \in ParamKeys : Typed(k, params[k]) /\ (k # "circularize" => params[k].num \in Int)
AskedFor == IsLaunch /\ Accepted(Asked) /\ params = FromArgs(Asked) /\ Numbers

PlannedCfg(cfg) ==
  /\ AskedFor /\ step = "done"
  /\ \E thin \in BOOLEAN, pitch \in TerminalPitches : cfg = LaunchPayload(VMin(thin), pitch)

PlannedNode == Obj([op |-> Str("add_node"), dv |-> Num(1), ut |-> Num(1)])

Sendable(w) ==
  \/ Op = "plan_circ" /\ w = PlannedNode
  \/ w = cmd /\ Is(cmd, "obj") /\ ~IsLaunch /\ Op # "plan_circ"
  \/ \E cfg : PlannedCfg(cfg) /\ w = LaunchCommand(encode_dict_value(Obj(cfg)))

Enclosed == \E w : Sendable(w) /\ wire = encode_dict_value(w)

(* What kOS may answer, and what the server hears of it.                   *)
KosPath == Unwrapped(Get(cmd, "path"))
Acknowledged == {"toggle_ag", "add_node", "run_script"}
Reasons ==
  {"run_script missing args", "run_script args must be a lexicon", "script not found", "unknown script"}
Events ==
  {Beat} \cup {Ack(op) : op \in Acknowledged}
         \cup {e \in {Done(KosPath)} \cup {Rejected(KosPath, reason) : reason \in Reasons} : Op = "run_script"}
AckOf(op) == [kind |-> "command_ack", op |-> op]
DoneOf(path, ok, reason) ==
  [kind |-> "script_done", path |-> path, boot |-> BootId, ok |-> ok, reason |-> reason]
BeatOf == [kind |-> "heartbeat", boot |-> BootId, path |-> "", active |-> TRUE]
Hearable ==
  {BeatOf} \cup {AckOf(op) : op \in Acknowledged}
           \cup {DoneOf(KosPath.str, TRUE, "")}
           \cup {DoneOf(KosPath.str, FALSE, reason) : reason \in Reasons}
           \cup {h \in {Dropped} : Op = "run_script" /\ ~Is(Get(cmd, "path"), "str")}

(* The first answer is h, whether or not it was read.                      *)
Hears(h) ==
  \/ heard # <<>> /\ heard[1] = h
  \/ heard = <<>> /\ replies # <<>> /\ \A raw \in Serialized(replies[1]) : parse_inbound(raw) = h

Untouched == ran = [op |-> "none"] /\ replies = <<>> /\ heard = <<>>
Refused ==
  /\ heard = <<[kind |-> "command_error", op |-> Op]>>
  /\ ran = [op |-> "none"] /\ replies = <<>>
  /\ wire = Null \/ Sendable(wire)
Ignored == ~Is(cmd, "obj") /\ wire = Null /\ Untouched
Answered ==
  IF ran.op # "none" THEN Hears(AckOf(ran.op)) ELSE Op = "run_script" /\ Hears(NotFound)
Executed ==
  /\ Launched => PlannedCfg(ran.cfg)
  /\ Op = "plan_circ" /\ ran.op = "add_node" => ran.dv = Num(1) /\ ran.ut = Num(1)
  /\ replies \in Seq(Events) /\ heard \in Seq(Hearable)
  /\ Button => Answered
  /\ Op = "ping" => (heard = <<>> /\ replies = <<>>) \/ Hears(BeatOf)

PathInv ==
  /\ cmd \in Commands
  /\ at \in {"queue", "circ", "plan", "send", "kos", "back", "over"}
  /\ at = "queue" => wire = Null /\ Untouched
  /\ at = "circ" => Op = "plan_circ" /\ wire = Null /\ Untouched
  /\ at = "plan" => AskedFor /\ wire = Null /\ Untouched
  /\ at = "send" => Sendable(wire) /\ Untouched
  /\ at = "kos" => Enclosed /\ Untouched
  /\ at = "back" => Enclosed /\ Executed
  /\ at = "over" => Refused \/ Ignored \/ (Enclosed /\ Executed /\ replies = <<>>)

LEMMA EventHeard ==
  ASSUME NEW e \in Events, NEW raw \in Serialized(e)
  PROVE  parse_inbound(raw) \in Hearable
<1>1. CASE e = Beat
  BY <1>1, BeatHeard DEF Hearable, BeatOf
<1>2. ASSUME NEW op \in Acknowledged, e = Ack(op)
      PROVE  parse_inbound(raw) \in Hearable
  <2>1. parse_inbound(raw) = AckOf(op)
    BY <1>2, AckHeard DEF AckOf
  <2>. QED
    BY <2>1 DEF Hearable
<1>3. ~Is(KosPath, "str") => ~Is(Get(cmd, "path"), "str")
  BY StringSent DEF KosPath
<1>4. CASE Op = "run_script" /\ e = Done(KosPath)
  <2>1. parse_inbound(raw) = IF Is(KosPath, "str") THEN DoneOf(KosPath.str, TRUE, "") ELSE Dropped
    BY <1>4, DoneHeard DEF DoneOf
  <2>. QED
    BY <1>3, <1>4, <2>1, Zenon DEF Hearable
<1>5. ASSUME NEW reason \in Reasons, Op = "run_script", e = Rejected(KosPath, reason)
      PROVE  parse_inbound(raw) \in Hearable
  <2>1. parse_inbound(raw) = IF Is(KosPath, "str") THEN DoneOf(KosPath.str, FALSE, reason) ELSE Dropped
    BY <1>5, RejectedHeard DEF DoneOf
  <2>. QED
    BY <1>3, <1>5, <2>1, Zenon DEF Hearable
<1>. QED
  BY <1>1, <1>2, <1>4, <1>5, Zenon DEF Events

LEMMA HearableIs ==
  \A h \in Hearable :
    /\ h.kind # "command_error"
    /\ h = Dropped => Op = "run_script" /\ ~Is(Get(cmd, "path"), "str")
<1>1. /\ BeatOf.kind = "heartbeat" /\ (\A op : AckOf(op).kind = "command_ack")
      /\ (\A path, ok, reason : DoneOf(path, ok, reason).kind = "script_done") /\ Dropped.kind = "dropped"
  BY DEF BeatOf, AckOf, DoneOf, Dropped
<1>2. ASSUME NEW h \in Hearable
      PROVE  \/ h = BeatOf \/ \E op : h = AckOf(op)
             \/ \E path, ok, reason : h = DoneOf(path, ok, reason)
             \/ h = Dropped /\ Op = "run_script" /\ ~Is(Get(cmd, "path"), "str")
  BY <1>2, Zenon DEF Hearable
<1>3. ASSUME NEW h \in Hearable
      PROVE  \/ h.kind \in {"heartbeat", "command_ack", "script_done"}
             \/ h = Dropped /\ Op = "run_script" /\ ~Is(Get(cmd, "path"), "str")
  BY <1>1, <1>2, <1>3, Zenon
<1>. QED
  BY <1>1, <1>3

(* Once a command is planned, nothing that a plan depends on changes.      *)
LEMMA Steady ==
  ASSUME UNCHANGED <<plan, cmd, params>>
  PROVE  /\ Op' = Op /\ IsLaunch' = IsLaunch /\ Asked' = Asked /\ KosPath' = KosPath /\ NotFound' = NotFound
         /\ AskedFor' = AskedFor /\ Button' = Button /\ Events' = Events /\ Hearable' = Hearable
         /\ \A cfg : PlannedCfg(cfg)' = PlannedCfg(cfg)
         /\ \A w : Sendable(w)' = Sendable(w)
<1>1. /\ Op' = Op /\ IsLaunch' = IsLaunch /\ Asked' = Asked /\ KosPath' = KosPath /\ NotFound' = NotFound
      /\ AskedFor' = AskedFor /\ Button' = Button
  BY DEF Op, IsLaunch, Asked, KosPath, NotFound, AskedFor, Numbers, Button
<1>2. \A cfg : PlannedCfg(cfg)' = PlannedCfg(cfg)
  BY <1>1 DEF PlannedCfg, TerminalPitches, VEstDefined, VMin, LaunchPayload, plan
<1>3. Events' = Events /\ Hearable' = Hearable
  BY <1>1 DEF Events, Hearable
<1>. QED
  BY <1>1, <1>2, <1>3 DEF Sendable

(* serde leaves every parameter of its type, given or not.                 *)
LEMMA AcceptedNumbers ==
  ASSUME cmd \in Commands, Is(cmd, "obj"), Accepted(Asked), NEW k \in ParamKeys
  PROVE  /\ Typed(k, FromArgs(Asked)[k])
         /\ k # "circularize" => FromArgs(Asked)[k].num \in Int
<1>1. Typed(k, Default(k)) /\ (k # "circularize" => Default(k).num \in Int)
  <2>1. CASE k = "circularize"
    <3>1. Default(k) = Bool(TRUE)
      BY <2>1 DEF Default
    <3>. QED
      BY <2>1, <3>1, Kinds DEF Typed
  <2>2. CASE k # "circularize"
    <3>1. PICK n \in Int : Default(k) = Num(n)
      BY <2>2 DEF Default
    <3>. QED
      BY <2>2, <3>1, Kinds DEF Typed
  <2>. QED
    BY <2>1, <2>2
<1>2. \A x \in Held(Asked) : Json(x)
  <2>1. CASE "args" \in DOMAIN cmd.obj
    <3>1. Asked \in Held(cmd)
      BY <2>1 DEF Asked, Get, Held
    <3>. QED
      BY <3>1, CommandAssumption
  <2>2. CASE "args" \notin DOMAIN cmd.obj
    <3>1. Asked = Null
      BY <2>2 DEF Asked, Get
    <3>2. Held(Asked) = {}
      BY <3>1, Kinds, OneKind DEF Held
    <3>. QED
      BY <3>2
  <2>. QED
    BY <2>1, <2>2
<1>3. \A x : Json(x) /\ Typed(k, x) /\ k # "circularize" => x.num \in Int
  BY OneKind DEF Json, Typed
<1>4. CASE Is(Asked, "obj")
  <2>1. Asked # Null /\ ~Is(Asked, "arr")
    BY <1>4, Kinds, OneKind
  <2>2. \A j \in DOMAIN Asked.obj : Typed(j, Asked.obj[j]) /\ Asked.obj[j] \in Held(Asked)
    BY <1>4, <2>1 DEF Accepted, Held
  <2>3. FromArgs(Asked)[k] = IF k \in DOMAIN Asked.obj THEN Asked.obj[k] ELSE Default(k)
    BY <1>4 DEF FromArgs
  <2>. QED
    BY <1>1, <1>2, <1>3, <2>2, <2>3
<1>5. CASE ~Is(Asked, "obj") /\ Is(Asked, "arr")
  <2>. DEFINE held == {Fields[i] : i \in DOMAIN Asked.arr}
              index == CHOOSE i \in DOMAIN Asked.arr : Fields[i] = k
  <2>1. \A i \in DOMAIN Asked.arr : Typed(Fields[i], Asked.arr[i]) /\ Asked.arr[i] \in Held(Asked)
    BY <1>5, Kinds, OneKind DEF Accepted, Held
  <2>2. k \in held => index \in DOMAIN Asked.arr /\ Fields[index] = k
    BY Zenon
  <2>. DEFINE given == [j \in held |-> Asked.arr[CHOOSE i \in DOMAIN Asked.arr : Fields[i] = j]]
              either == IF Is(Asked, "obj") THEN Asked.obj
                        ELSE IF Is(Asked, "arr") THEN given ELSE <<>>
  <2>3. FromArgs(Asked) = [j \in ParamKeys |-> IF j \in DOMAIN given THEN given[j] ELSE Default(j)]
    <3>1. FromArgs(Asked) = [j \in ParamKeys |-> IF j \in DOMAIN either THEN either[j] ELSE Default(j)]
      BY Zenon DEF FromArgs
    <3>2. either = given
      BY <1>5, Zenon
    <3>. HIDE DEF either, given
    <3>. QED
      BY <3>1, <3>2
  <2>4. DOMAIN given = held /\ (k \in held => given[k] = Asked.arr[index])
    BY Zenon
  <2>. HIDE DEF held, index, given
  <2>5. FromArgs(Asked)[k] = IF k \in held THEN Asked.arr[index] ELSE Default(k)
    BY <2>3, <2>4
  <2>. QED
    BY <1>1, <1>2, <1>3, <2>1, <2>2, <2>5
<1>6. CASE ~Is(Asked, "obj") /\ ~Is(Asked, "arr")
  <2>1. FromArgs(Asked)[k] = Default(k)
    BY <1>6 DEF FromArgs
  <2>. QED
    BY <1>1, <2>1
<1>. QED
  BY <1>4, <1>5, <1>6

(* Nothing in the plan of a launch needs an envelope of its own.           *)
LEMMA CfgPrimitive ==
  ASSUME NEW cfg, PlannedCfg(cfg)
  PROVE  \A k \in DOMAIN cfg : Primitive(cfg[k])
<1>1. PICK thin \in BOOLEAN, pitch \in TerminalPitches : cfg = LaunchPayload(VMin(thin), pitch)
  BY DEF PlannedCfg
<1>2. Primitive(VMin(thin)) /\ Primitive(pitch)
  BY Primitives DEF VMin, TerminalPitches
<1>3. \A k \in ParamKeys : Primitive(params[k])
  BY Primitives DEF PlannedCfg, AskedFor, Numbers
<1>4. Primitive(Num(terrain)) /\ Primitive(Num(entry))
  BY Primitives
<1>. QED
  BY <1>1, <1>2, <1>3, <1>4 DEF LaunchPayload

(* Its first answer is what the server hears first.                        *)
LEMMA FirstHeard ==
  ASSUME heard' = <<>>, NEW op,
         \/ replies' = <<Ack(op)>>
         \/ \E e : replies' = <<Ack(op), e>>
  PROVE  Hears(AckOf(op))'
<1>1. replies' # <<>> /\ replies'[1] = Ack(op)
  OBVIOUS
<1>2. ASSUME NEW raw \in Serialized(replies'[1]) PROVE parse_inbound(raw) = AckOf(op)
  BY <1>1, <1>2, AckHeard DEF AckOf
<1>. QED
  BY <1>1, <1>2 DEF Hears

(* A script that is missing, and nothing else that is asked of kOS.        *)
LEMMA RejectFirst ==
  ASSUME heard' = <<>>, UNCHANGED <<plan, cmd, params>>, NEW s, Get(cmd, "path") = Str(s),
         replies' = <<Rejected(Str(s), "script not found")>>
  PROVE  Hears(NotFound)'
<1>1. replies' # <<>> /\ replies'[1] = Rejected(Str(s), "script not found")
  OBVIOUS
<1>2. Is(Str(s), "str") /\ Str(s).str = s
  BY Kinds
<1>3. NotFound' = NotFound /\ NotFound = DoneOf(s, FALSE, "script not found")
  BY <1>2, Steady DEF NotFound, DoneOf
<1>4. ASSUME NEW raw \in Serialized(replies'[1]) PROVE parse_inbound(raw) = NotFound
  <2>1. parse_inbound(raw) = DoneOf(s, FALSE, "script not found")
    BY <1>1, <1>2, <1>4, RejectedHeard DEF DoneOf
  <2>. QED
    BY <1>3, <2>1
<1>. QED
  BY <1>1, <1>3, <1>4 DEF Hears

LEMMA BeatFirst == heard' = <<>> /\ replies' = <<Beat>> => Hears(BeatOf)'
<1>. SUFFICES ASSUME heard' = <<>>, replies' = <<Beat>> PROVE Hears(BeatOf)'
  OBVIOUS
<1>1. replies' # <<>> /\ replies'[1] = Beat
  OBVIOUS
<1>2. ASSUME NEW raw \in Serialized(replies'[1]) PROVE parse_inbound(raw) = BeatOf
  BY <1>1, <1>2, BeatHeard DEF BeatOf
<1>. QED
  BY <1>1, <1>2 DEF Hears

-----------------------------------------------------------------------------
(* handleMessage, and what it reads of a command that came as it was.      *)
LEMMA OpRead ==
  ASSUME NEW lex, Is(cmd, "obj"), lex = [k \in DOMAIN cmd.obj |-> Unwrapped(cmd.obj[k])]
  PROVE  /\ OpIn(lex) # "" => Op = OpIn(lex)
         /\ Op # "unknown" => OpIn(lex) = Op
<1>1. CASE "op" \in DOMAIN cmd.obj
  <2>. DEFINE x == cmd.obj["op"]
  <2>1. OpIn(lex) = StrOr(Unwrapped(x), "") /\ Op = StrOr(x, "unknown")
    BY <1>1 DEF OpIn, Op, Get
  <2>. HIDE DEF x
  <2>2. Is(x, "str") \/ Is(Unwrapped(x), "str") => Unwrapped(x) = x
    BY StringSent
  <2>. QED
    BY <2>1, <2>2 DEF StrOr
<1>2. CASE "op" \notin DOMAIN cmd.obj
  <2>1. OpIn(lex) = "" /\ Get(cmd, "op") = Null
    BY <1>2 DEF OpIn, Get
  <2>2. ~Is(Null, "str")
    BY Kinds, OneKind
  <2>. QED
    BY <2>1, <2>2 DEF Op, StrOr
<1>. QED
  BY <1>1, <1>2

LEMMA PathRead ==
  ASSUME NEW lex, Is(cmd, "obj"), lex = [k \in DOMAIN cmd.obj |-> Unwrapped(cmd.obj[k])],
         OpIn(lex) = "run_script"
  PROVE  /\ "path" \in DOMAIN lex => PathIn(lex) = KosPath
         /\ \A s : PathIn(lex) = Str(s) <=> Get(cmd, "path") = Str(s)
         /\ \A s : PathIn(lex) = Str(s) => "path" \in DOMAIN lex
<1>. DEFINE x == Get(cmd, "path")
<1>1. "path" \in DOMAIN lex => PathIn(lex) = Unwrapped(x)
  BY DEF PathIn, Get
<1>2. "path" \notin DOMAIN lex => PathIn(lex) = Null /\ x = Null
  BY DEF PathIn, Get
<1>. HIDE DEF x
<1>3. \A s : Str(s) # Null /\ Is(Str(s), "str")
  BY Kinds, OneKind
<1>4. Is(x, "str") \/ Is(Unwrapped(x), "str") => Unwrapped(x) = x
  BY StringSent
<1>5. PathIn(lex) = Unwrapped(x) =>
        \A s : PathIn(lex) = Str(s) <=> x = Str(s)
  BY <1>3, <1>4
<1>. QED
  BY <1>1, <1>2, <1>3, <1>5 DEF KosPath, x

LEMMA Answers ==
  ASSUME NEW S, NEW e \in S, NEW f \in S
  PROVE  <<e>> \in Seq(S) /\ <<e, f>> \in Seq(S) /\ <<>> \in Seq(S)
  OBVIOUS

LEMMA Named == \A s, t : Str(s) = Str(t) => s = t
  BY Kinds

(* Only run_script has a path.                                             *)
LEMMA PathOfRun == \A lex : PathIn(lex) # Null => OpIn(lex) = "run_script"
  BY DEF PathIn

LEMMA RawHandled ==
  ASSUME NEW lex, Is(cmd, "obj"), lex = [k \in DOMAIN cmd.obj |-> Unwrapped(cmd.obj[k])],
         ~IsLaunch, Op # "plan_circ", UNCHANGED <<plan, cmd, params>>, Untouched, heard' = <<>>,
         Handle(lex, OpIn(lex), PathIn(lex))
  PROVE  Executed'
<1>. DEFINE op == OpIn(lex)
            path == PathIn(lex)
            has(k) == k \in DOMAIN lex
<1>1. /\ op # "" => Op = op
      /\ Op # "unknown" => op = Op
  BY OpRead
<1>2. op = "run_script" =>
        /\ has("path") => path = KosPath
        /\ \A s : path = Str(s) <=> Get(cmd, "path") = Str(s)
        /\ \A s : path = Str(s) => has("path")
  BY PathRead
<1>3. path # Null => op = "run_script"
  BY PathOfRun
<1>4. \A s : Str(s) # Null
  BY Kinds, OneKind
<1>5. path # Str("launch.ks")
  BY <1>1, <1>2, <1>3, <1>4 DEF IsLaunch
<1>6. Button =>
        \/ op = "toggle_ag" /\ has("n") /\ lex["n"] \in Groups
        \/ op = "run_script" /\ has("path") /\ path = Str("maneuver.ks")
  <2>1. ASSUME Op = "toggle_ag", Get(cmd, "n") \in Groups
        PROVE  op = "toggle_ag" /\ has("n") /\ lex["n"] \in Groups
    <3>1. \A n : Num(n) # Null /\ Unwrapped(Num(n)) = Num(n)
      BY Kinds, OneKind, Primitives, PrimitiveIs
    <3>2. "n" \in DOMAIN cmd.obj /\ Get(cmd, "n") = cmd.obj["n"]
      BY <2>1, <3>1, Zenon DEF Get, Groups
    <3>3. Unwrapped(cmd.obj["n"]) = cmd.obj["n"]
      BY <2>1, <3>1, <3>2 DEF Groups
    <3>4. has("n") /\ lex["n"] = Unwrapped(cmd.obj["n"])
      BY <3>2
    <3>. QED
      BY <1>1, <2>1, <3>2, <3>3, <3>4
  <2>. HIDE DEF op, path, has
  <2>. QED
    BY <1>1, <1>2, <2>1 DEF Button
<1>7. /\ Op' = Op /\ Button' = Button /\ Events' = Events /\ Hearable' = Hearable
      /\ heard' \in Seq(Hearable')
  BY Steady
<1>8. Beat \in Events /\ (\A o \in Acknowledged : Ack(o) \in Events)
      /\ (Op = "run_script" => /\ Done(KosPath) \in Events
                               /\ \A reason \in Reasons : Rejected(KosPath, reason) \in Events)
  BY DEF Events
<1>9. \/ op = "ping" /\ replies' = <<Beat>> /\ ran' = ran
      \/ /\ op = "toggle_ag" /\ replies' = <<Ack(op)>>
         /\ ran' = [op |-> op, n |-> lex["n"]] \/ (lex["n"] \notin Groups /\ ran' = ran)
      \/ op = "add_node" /\ replies' = <<Ack(op)>> /\ ran' = [op |-> op, dv |-> lex["dv"], ut |-> lex["ut"]]
      \/ /\ path = Str("maneuver.ks") /\ ran' = [op |-> op, path |-> path]
         /\ replies' = <<Ack(op)>> \/ replies' = <<Ack(op), Done(path)>>
      \/ /\ path = Str("maneuver.ks") /\ ran' = ran
         /\ replies' = <<Rejected(path, "script not found")>>
      \/ /\ op = "run_script" /\ has("path") /\ path # Str("maneuver.ks")
         /\ replies' = <<Rejected(path, "unknown script")>> /\ ran' = ran
      \/ /\ \/ op \notin {"ping", "toggle_ag", "add_node", "run_script"}
            \/ op = "toggle_ag" /\ ~has("n")
            \/ op = "add_node"
            \/ op = "run_script" /\ ~has("path")
         /\ replies' = <<>> /\ ran' = ran
  <2>. HIDE DEF op, path, has
  <2>1. Handle(lex, op, path)
    BY DEF op, path
  <2>. QED
    BY <1>5, <2>1 DEF Handle, Replies, Runs, RunsNothing, ScriptShape, has
<1>. HIDE DEF op, path, has
<1>10. ran.op = "none"
  BY DEF Untouched
<1>11. CASE op = "ping" /\ replies' = <<Beat>> /\ ran' = ran
  <2>1. Hears(BeatOf)'
    BY <1>11, BeatFirst
  <2>2. ~Launched' /\ ran'.op = "none" /\ replies' \in Seq(Events) /\ ~Button /\ Op = "ping"
    BY <1>1, <1>6, <1>8, <1>10, <1>11 DEF Launched
  <2>. QED
    BY <1>7, <2>1, <2>2 DEF Executed
<1>12. CASE /\ op = "toggle_ag" /\ replies' = <<Ack(op)>>
            /\ ran' = [op |-> op, n |-> lex["n"]] \/ (lex["n"] \notin Groups /\ ran' = ran)
  <2>1. Hears(AckOf(op))'
    BY <1>12, FirstHeard
  <2>2. Op = "toggle_ag" /\ replies' \in Seq(Events)
    BY <1>1, <1>8, <1>12 DEF Acknowledged
  <2>3. CASE ran' = [op |-> op, n |-> lex["n"]]
    <3>1. ran'.op = op /\ ~Launched'
      BY <1>12, <2>3 DEF Launched
    <3>. QED
      BY <1>7, <1>12, <2>1, <2>2, <3>1 DEF Executed, Answered
  <2>4. CASE lex["n"] \notin Groups /\ ran' = ran
    <3>1. ran'.op = "none" /\ ~Launched' /\ ~Button
      BY <1>6, <1>10, <1>12, <2>4 DEF Launched
    <3>. QED
      BY <1>7, <2>2, <3>1 DEF Executed
  <2>. QED
    BY <1>12, <2>3, <2>4
<1>13. CASE op = "add_node" /\ replies' = <<Ack(op)>> /\ ran' = [op |-> op, dv |-> lex["dv"], ut |-> lex["ut"]]
  <2>1. ran'.op = op /\ Hears(AckOf(op))'
    BY <1>13, FirstHeard
  <2>2. ~Launched' /\ replies' \in Seq(Events) /\ Op = "add_node"
    BY <1>1, <1>8, <1>13, <2>1 DEF Launched, Acknowledged
  <2>. QED
    BY <1>7, <1>13, <2>1, <2>2 DEF Executed, Answered
<1>14. CASE /\ path = Str("maneuver.ks") /\ ran' = [op |-> op, path |-> path]
            /\ replies' = <<Ack(op)>> \/ replies' = <<Ack(op), Done(path)>>
  <2>1. op = "run_script" /\ Op = "run_script" /\ path = KosPath
    BY <1>1, <1>2, <1>3, <1>4, <1>14
  <2>2. ran'.op = op /\ ran'.path = Str("maneuver.ks") /\ Hears(AckOf(op))'
    BY <1>14, FirstHeard
  <2>3. ~Launched'
    BY <2>2, Named DEF Launched
  <2>4. replies' \in Seq(Events)
    <3>1. Ack(op) \in Events /\ Done(path) \in Events
      BY <1>8, <2>1 DEF Acknowledged
    <3>. QED
      BY <1>14, <3>1, Answers
  <2>. QED
    BY <1>7, <2>1, <2>2, <2>3, <2>4 DEF Executed, Answered
<1>15. CASE /\ path = Str("maneuver.ks") /\ ran' = ran
            /\ replies' = <<Rejected(path, "script not found")>>
  <2>1. Op = "run_script" /\ path = KosPath /\ Get(cmd, "path") = Str("maneuver.ks")
    BY <1>1, <1>2, <1>3, <1>4, <1>15
  <2>2. ~Launched' /\ ran'.op = "none"
    BY <1>10, <1>15 DEF Launched
  <2>3. Hears(NotFound)'
    BY <1>15, <2>1, RejectFirst
  <2>4. replies' \in Seq(Events)
    <3>1. Rejected(path, "script not found") \in Events
      BY <1>8, <2>1 DEF Reasons
    <3>. QED
      BY <1>15, <3>1, Answers
  <2>. QED
    BY <1>7, <2>1, <2>2, <2>3, <2>4 DEF Executed, Answered
<1>16. CASE /\ op = "run_script" /\ has("path") /\ path # Str("maneuver.ks")
            /\ replies' = <<Rejected(path, "unknown script")>> /\ ran' = ran
  <2>1. Op = "run_script" /\ path = KosPath /\ ~Button
    BY <1>1, <1>2, <1>6, <1>16
  <2>2. ~Launched' /\ ran'.op = "none"
    BY <1>10, <1>16 DEF Launched
  <2>3. replies' \in Seq(Events)
    <3>1. Rejected(path, "unknown script") \in Events
      BY <1>8, <2>1 DEF Reasons
    <3>. QED
      BY <1>16, <3>1, Answers
  <2>. QED
    BY <1>7, <2>1, <2>2, <2>3 DEF Executed
<1>17. CASE /\ \/ op \notin {"ping", "toggle_ag", "add_node", "run_script"}
               \/ op = "toggle_ag" /\ ~has("n")
               \/ op = "add_node"
               \/ op = "run_script" /\ ~has("path")
            /\ replies' = <<>> /\ ran' = ran
  <2>1. ~Button
    BY <1>6, <1>17
  <2>2. ~Launched' /\ ran'.op = "none" /\ replies' \in Seq(Events)
    BY <1>10, <1>17 DEF Launched
  <2>. QED
    BY <1>7, <1>17, <2>1, <2>2 DEF Executed
<1>. QED
  BY <1>9, <1>11, <1>12, <1>13, <1>14, <1>15, <1>16, <1>17

(* kIPC rejects nothing that a button sends.                               *)
LEMMA NullHandled ==
  ASSUME Is(cmd, "obj"), Deserialized(encode_dict_value(cmd)) = Null, ~IsLaunch, Op # "plan_circ",
         UNCHANGED <<plan, cmd, params>>, Untouched, heard' = <<>>,
         Handle(<<>>, OpIn(<<>>), PathIn(<<>>))
  PROVE  Executed'
<1>1. ~Button
  <2>1. ~\A k \in DOMAIN cmd.obj : Flat(cmd.obj[k])
    BY OpenedIs, LexIs
  <2>. QED
    BY <2>1 DEF Button
<1>2. OpIn(<<>>) = "" /\ PathIn(<<>>) = Null
  <2>1. "op" \notin DOMAIN <<>> /\ "path" \notin DOMAIN <<>>
    BY SMT
  <2>. HIDE DEF Null
  <2>. QED
    BY <2>1, Zenon DEF OpIn, PathIn
<1>3. \A s : Str(s) # Null
  BY Kinds, OneKind
<1>4. replies' = <<>> /\ ran' = ran
  BY <1>2, <1>3 DEF Handle, Replies, RunsNothing, ScriptShape
<1>5. Op' = Op /\ Button' = Button /\ Events' = Events /\ Hearable' = Hearable
  BY Steady
<1>6. ran.op = "none"
  BY DEF Untouched
<1>7. ~Launched' /\ ran'.op = "none" /\ replies' \in Seq(Events) /\ heard' \in Seq(Hearable)
  BY <1>4, <1>6 DEF Launched
<1>. QED
  BY <1>1, <1>4, <1>5, <1>7 DEF Executed

(* The node of a planned circularization.                                  *)
LEMMA NodeHandled ==
  ASSUME NEW lex, Op = "plan_circ", UNCHANGED <<plan, cmd, params>>, Untouched, heard' = <<>>,
         DOMAIN lex = {"op", "dv", "ut"}, lex["op"] = Str("add_node"), lex["dv"] = Num(1), lex["ut"] = Num(1),
         Handle(lex, OpIn(lex), PathIn(lex))
  PROVE  Executed'
<1>1. OpIn(lex) = "add_node" /\ PathIn(lex) = Null
  BY StrOrIs DEF OpIn, PathIn
<1>2. \A s : Str(s) # Null
  BY Kinds, OneKind
<1>3. /\ replies' = <<Ack("add_node")>>
      /\ ran' = [op |-> "add_node", dv |-> Num(1), ut |-> Num(1)]
  BY <1>1, <1>2 DEF Handle, Replies, Runs, RunsNothing, ScriptShape
<1>4. Hears(AckOf("add_node"))' /\ ran'.op = "add_node" /\ ran'.dv = Num(1) /\ ran'.ut = Num(1)
  BY <1>3, FirstHeard
<1>5. Op' = Op /\ Events' = Events /\ Hearable' = Hearable
  BY Steady
<1>6. ~Launched' /\ replies' \in Seq(Events) /\ heard' \in Seq(Hearable)
  BY <1>3, <1>4 DEF Launched, Events, Acknowledged
<1>. QED
  BY <1>4, <1>5, <1>6 DEF Executed, Answered

(* A launch.                                                               *)
LEMMA LaunchHandled ==
  ASSUME NEW lex, NEW cfg, PlannedCfg(cfg), UNCHANGED <<plan, cmd, params>>, Untouched, heard' = <<>>,
         DOMAIN lex = {"op", "path", "args"}, lex["op"] = Str("run_script"),
         lex["path"] = Str("launch.ks"), lex["args"] = [lex |-> cfg],
         Handle(lex, OpIn(lex), PathIn(lex))
  PROVE  Executed'
<1>1. OpIn(lex) = "run_script" /\ PathIn(lex) = Str("launch.ks")
  BY StrOrIs DEF OpIn, PathIn
<1>2. Is(lex["args"], "lex") /\ lex["args"].lex = cfg
  BY LexIs
<1>3. /\ Op' = Op /\ Events' = Events /\ Hearable' = Hearable /\ PlannedCfg(cfg)'
  BY Steady
<1>4. Op = "run_script" /\ Get(cmd, "path") = Str("launch.ks") /\ KosPath = Str("launch.ks")
  <2>1. Op = "run_script" /\ Get(cmd, "path") = Str("launch.ks")
    BY DEF PlannedCfg, AskedFor, IsLaunch
  <2>2. Is(Str("launch.ks"), "str")
    BY Kinds
  <2>. QED
    BY <2>1, <2>2, StringSent DEF KosPath
<1>5. /\ Ack("run_script") \in Events /\ Done(Str("launch.ks")) \in Events
      /\ Rejected(Str("launch.ks"), "script not found") \in Events
  BY <1>4 DEF Events, Acknowledged, Reasons
<1>6. heard' \in Seq(Hearable) /\ Op # "plan_circ" /\ Op # "ping"
  BY <1>4
<1>7. \/ /\ replies' = <<Ack("run_script")>> \/ replies' = <<Ack("run_script"), Done(Str("launch.ks"))>>
         /\ ran' = [op |-> "run_script", path |-> Str("launch.ks"), cfg |-> cfg]
      \/ replies' = <<Rejected(Str("launch.ks"), "script not found")>> /\ ran' = ran
  BY <1>1, <1>2, Named DEF Handle, Replies, Runs, RunsNothing, ScriptShape
<1>8. CASE /\ replies' = <<Ack("run_script")>> \/ replies' = <<Ack("run_script"), Done(Str("launch.ks"))>>
           /\ ran' = [op |-> "run_script", path |-> Str("launch.ks"), cfg |-> cfg]
  <2>1. Hears(AckOf("run_script"))' /\ ran'.op = "run_script" /\ ran'.cfg = cfg
    BY <1>8, FirstHeard
  <2>2. replies' \in Seq(Events)
    BY <1>5, <1>8, Answers
  <2>. QED
    BY <1>3, <1>6, <2>1, <2>2 DEF Executed, Answered
<1>9. CASE replies' = <<Rejected(Str("launch.ks"), "script not found")>> /\ ran' = ran
  <2>1. Hears(NotFound)'
    BY <1>4, <1>9, RejectFirst
  <2>2. ran'.op = "none" /\ ~Launched'
    BY <1>9 DEF Untouched, Launched
  <2>3. replies' \in Seq(Events)
    BY <1>5, <1>9, Answers
  <2>. QED
    BY <1>3, <1>4, <1>6, <2>1, <2>2, <2>3 DEF Executed, Answered
<1>. QED
  BY <1>7, <1>8, <1>9

LEMMA KosRuns ==
  ASSUME PathInv, HandleMessage
  PROVE  Executed'
<1>1. at = "kos" /\ Enclosed /\ Untouched
  BY DEF PathInv, HandleMessage
<1>2. UNCHANGED <<plan, cmd, params>> /\ heard' = <<>>
  BY <1>1 DEF HandleMessage, KeepPlan, Untouched
<1>. DEFINE content == Deserialized(wire)
            lex == IF content = Null THEN <<>> ELSE content.lex
<1>3. Handle(lex, OpIn(lex), PathIn(lex))
  BY Zenon DEF HandleMessage
<1>4. PICK w : Sendable(w) /\ wire = encode_dict_value(w)
  BY <1>1 DEF Enclosed
<1>5. CASE Op = "plan_circ" /\ w = PlannedNode
  <2>. DEFINE g == [op |-> Str("add_node"), dv |-> Num(1), ut |-> Num(1)]
              f == [k \in DOMAIN g |-> Unwrapped(g[k])]
  <2>1. PlannedNode.obj = g /\ DOMAIN g = {"op", "dv", "ut"}
    BY Kinds DEF PlannedNode
  <2>2. /\ \A s : Flat(Str(s)) /\ Unwrapped(Str(s)) = Str(s)
        /\ \A n : Flat(Num(n)) /\ Unwrapped(Num(n)) = Num(n)
    BY Primitives, PrimitiveIs
  <2>3. \A k \in DOMAIN g : Flat(g[k])
    BY <2>2
  <2>4. content = [lex |-> f]
    BY <1>4, <1>5, <2>1, <2>3, OpenedIs
  <2>5. lex = f
    BY <2>4, LexIs
  <2>6. DOMAIN f = {"op", "dv", "ut"} /\ f["op"] = Str("add_node") /\ f["dv"] = Num(1) /\ f["ut"] = Num(1)
    BY <2>2
  <2>. HIDE DEF f, lex
  <2>. QED
    BY <1>1, <1>2, <1>3, <1>5, <2>5, <2>6, NodeHandled
<1>6. CASE w = cmd /\ Is(cmd, "obj") /\ ~IsLaunch /\ Op # "plan_circ"
  <2>1. CASE content = Null
    <3>1. lex = <<>>
      BY <2>1
    <3>2. Deserialized(encode_dict_value(cmd)) = Null
      BY <1>4, <1>6, <2>1
    <3>3. Handle(<<>>, OpIn(<<>>), PathIn(<<>>))
      BY <1>3, <3>1
    <3>. QED
      BY <1>1, <1>2, <1>6, <3>2, <3>3, NullHandled
  <2>2. CASE content # Null
    <3>1. content = [lex |-> [k \in DOMAIN cmd.obj |-> Unwrapped(cmd.obj[k])]]
      BY <1>4, <1>6, <2>2, OpenedIs
    <3>2. lex = [k \in DOMAIN cmd.obj |-> Unwrapped(cmd.obj[k])]
      BY <2>2, <3>1
    <3>. HIDE DEF lex
    <3>. QED
      BY <1>1, <1>2, <1>3, <1>6, <3>2, RawHandled
  <2>. QED
    BY <2>1, <2>2
<1>7. ASSUME NEW cfg, PlannedCfg(cfg), w = LaunchCommand(encode_dict_value(Obj(cfg)))
      PROVE  Executed'
  <2>1. PICK f : /\ content = [lex |-> f]
                 /\ DOMAIN f = {"op", "path", "args"}
                 /\ f["op"] = Str("run_script") /\ f["path"] = Str("launch.ks") /\ f["args"] = [lex |-> cfg]
    BY <1>4, <1>7, CfgPrimitive, LaunchOpened
  <2>2. lex = f
    BY <2>1, LexIs
  <2>. HIDE DEF lex
  <2>. QED
    BY <1>1, <1>2, <1>3, <1>7, <2>1, <2>2, LaunchHandled
<1>. QED
  BY <1>4, <1>5, <1>6, <1>7 DEF Sendable

(* The server reads the events one by one.                                 *)
LEMMA HearExecuted ==
  ASSUME Executed, Hear
  PROVE  Executed'
<1>1. /\ Op' = Op /\ Button' = Button /\ Events' = Events /\ Hearable' = Hearable
      /\ NotFound' = NotFound /\ \A cfg : PlannedCfg(cfg)' = PlannedCfg(cfg)
      /\ ran' = ran
  BY Steady DEF Hear, KeepPlan
<1>2. Launched' = Launched
  BY <1>1 DEF Launched
<1>3. CASE replies = <<>>
  <2>1. replies' = replies /\ heard' = heard
    BY <1>3 DEF Hear
  <2>2. \A h : Hears(h)' = Hears(h)
    BY <2>1 DEF Hears
  <2>3. Answered' = Answered
    BY <1>1, <2>2 DEF Answered
  <2>. QED
    BY <1>1, <1>2, <2>1, <2>2, <2>3 DEF Executed
<1>4. CASE replies # <<>>
  <2>1. PICK raw \in Serialized(Head(replies)) :
          heard' = Append(heard, parse_inbound(raw)) /\ replies' = Tail(replies)
    BY <1>4 DEF Hear
  <2>2. replies \in Seq(Events) /\ heard \in Seq(Hearable)
    BY DEF Executed
  <2>3. Head(replies) \in Events /\ Head(replies) = replies[1]
    BY <1>4, <2>2
  <2>4. parse_inbound(raw) \in Hearable
    BY <2>3, EventHeard
  <2>5. replies' \in Seq(Events) /\ heard' \in Seq(Hearable)
    BY <1>4, <2>1, <2>2, <2>4
  <2>6. ASSUME NEW h, Hears(h) PROVE Hears(h)'
    <3>1. heard' # <<>> /\ heard'[1] = IF heard = <<>> THEN parse_inbound(raw) ELSE heard[1]
      BY <2>1, <2>2
    <3>2. heard = <<>> => parse_inbound(raw) = h
      BY <2>1, <2>3, <2>6 DEF Hears
    <3>3. heard # <<>> => heard[1] = h
      BY <2>6 DEF Hears
    <3>. QED
      BY <3>1, <3>2, <3>3 DEF Hears
  <2>7. Answered => Answered'
    BY <1>1, <2>6 DEF Answered
  <2>. QED
    BY <1>1, <1>2, <1>4, <2>5, <2>6, <2>7 DEF Executed
<1>. QED
  BY <1>3, <1>4

LEMMA InitPathInv == PathInit => PathInv
  BY DEF PathInit, PathInv, Untouched

LEMMA TakePathInv == PathInv /\ TakeCommand => PathInv'
<1>. SUFFICES ASSUME PathInv, TakeCommand PROVE PathInv'
  OBVIOUS
<1>1. at = "queue" /\ cmd \in Commands /\ wire = Null /\ Untouched
  BY DEF PathInv, TakeCommand
<1>2. UNCHANGED <<plan, cmd, ran, replies>>
  BY DEF TakeCommand, KeepPlan
<1>3. Op' = Op /\ IsLaunch' = IsLaunch /\ Asked' = Asked
  BY <1>2 DEF Op, IsLaunch, Asked
<1>4. CASE ~Is(cmd, "obj")
  <2>1. at' = "over" /\ UNCHANGED <<wire, heard>>
    BY <1>4 DEF TakeCommand
  <2>. QED
    BY <1>1, <1>2, <1>4, <2>1 DEF PathInv, Ignored, Untouched
<1>5. CASE Is(cmd, "obj") /\ Op = "plan_circ"
  <2>1. at' = "circ" /\ UNCHANGED <<wire, heard>>
    BY <1>5 DEF TakeCommand
  <2>. QED
    BY <1>1, <1>2, <1>3, <1>5, <2>1 DEF PathInv, Untouched
<1>6. CASE Is(cmd, "obj") /\ Op # "plan_circ" /\ ~IsLaunch
  <2>1. at' = "send" /\ wire' = cmd /\ UNCHANGED heard
    BY <1>6 DEF TakeCommand
  <2>2. Sendable(wire)'
    BY <1>2, <1>3, <1>6, <2>1 DEF Sendable
  <2>. QED
    BY <1>1, <1>2, <2>1, <2>2 DEF PathInv, Untouched
<1>7. CASE Is(cmd, "obj") /\ Op # "plan_circ" /\ IsLaunch /\ Accepted(Asked)
  <2>1. at' = "plan" /\ params' = FromArgs(Asked) /\ UNCHANGED <<wire, heard>>
    BY <1>7 DEF TakeCommand, Asked
  <2>2. Numbers'
    BY <1>1, <1>7, <2>1, AcceptedNumbers DEF Numbers
  <2>3. AskedFor'
    BY <1>3, <1>7, <2>1, <2>2 DEF AskedFor
  <2>. QED
    BY <1>1, <1>2, <2>1, <2>3 DEF PathInv, Untouched
<1>8. CASE Is(cmd, "obj") /\ Op # "plan_circ" /\ IsLaunch /\ ~Accepted(Asked)
  <2>1. Refuse /\ UNCHANGED wire
    BY <1>8 DEF TakeCommand, Asked
  <2>. QED
    BY <1>1, <1>2, <1>3, <2>1 DEF Refuse, PathInv, Refused, Untouched
<1>. QED
  BY <1>4, <1>5, <1>6, <1>7, <1>8

(* A refusal, from wherever it comes.                                      *)
LEMMA RefusePathInv ==
  ASSUME Refuse, Untouched, cmd \in Commands, UNCHANGED <<plan, cmd, params, wire, ran, replies>>,
         wire = Null \/ Sendable(wire)
  PROVE  PathInv'
<1>1. Op' = Op /\ \A w : Sendable(w)' = Sendable(w)
  BY Steady
<1>2. (wire = Null \/ Sendable(wire))'
  BY <1>1
<1>. QED
  BY <1>1, <1>2 DEF Refuse, Refused, Untouched, PathInv

LEMMA NextPathInv == PlanInv /\ PathInv /\ [PathNext]_pathVars => PathInv'
<1>. SUFFICES ASSUME PlanInv, PathInv, [PathNext]_pathVars PROVE PathInv'
  OBVIOUS
<1>1. cmd \in Commands
  BY DEF PathInv
<1>2. CASE TakeCommand
  BY <1>2, TakePathInv
<1>3. CASE PlanCirc
  <2>1. at = "circ" /\ Op = "plan_circ" /\ wire = Null /\ Untouched
    BY <1>3 DEF PathInv, PlanCirc
  <2>2. UNCHANGED <<plan, cmd, params, ran, replies>>
    BY <1>3 DEF PlanCirc, KeepPlan
  <2>3. CASE Refuse /\ UNCHANGED wire
    BY <1>1, <2>1, <2>2, <2>3, RefusePathInv
  <2>4. CASE wire' = PlannedNode /\ at' = "send" /\ UNCHANGED heard
    <3>1. Sendable(PlannedNode)' /\ PlannedNode' = PlannedNode
      BY <2>1, <2>2, Steady DEF Sendable, PlannedNode
    <3>2. Sendable(wire)'
      BY <2>4, <3>1
    <3>. QED
      BY <1>1, <2>1, <2>2, <2>4, <3>2 DEF PathInv, Untouched
  <2>. QED
    BY <1>3, <2>3, <2>4 DEF PlanCirc, PlannedNode
<1>4. CASE PlanLaunch
  <2>1. at = "plan" /\ AskedFor /\ wire = Null /\ Untouched /\ UNCHANGED command
    BY <1>4 DEF PathInv, PlanLaunch
  <2>2. UNCHANGED <<cmd, at, params, wire, ran, replies, heard>>
    BY <2>1 DEF command
  <2>3. AskedFor'
    BY <2>1, <2>2 DEF AskedFor, IsLaunch, Op, Asked, Numbers
  <2>. QED
    BY <1>1, <2>1, <2>2, <2>3 DEF PathInv, Untouched
<1>5. CASE UsePlan
  <2>1. at = "plan" /\ AskedFor /\ step = "done" /\ Untouched /\ at' = "send"
    BY <1>5 DEF PathInv, UsePlan
  <2>2. UNCHANGED <<plan, cmd, params, ran, replies, heard>>
    BY <1>5 DEF UsePlan, KeepPlan
  <2>3. PICK thin \in {TRUE, ~air}, pitch \in TerminalPitches :
          wire' = LaunchCommand(encode_dict_value(Obj(LaunchPayload(VMin(thin), pitch))))
    BY <1>5 DEF UsePlan
  <2>4. thin \in BOOLEAN
    BY Zenon DEF PlanInv, TypeOK
  <2>. DEFINE cfg == LaunchPayload(VMin(thin), pitch)
  <2>5. PlannedCfg(cfg)
    BY <2>1, <2>4 DEF PlannedCfg
  <2>. HIDE DEF cfg
  <2>6. Sendable(LaunchCommand(encode_dict_value(Obj(cfg))))
    BY <2>5 DEF Sendable
  <2>7. Sendable(wire)'
    <3>1. wire' = LaunchCommand(encode_dict_value(Obj(cfg)))
      BY <2>3 DEF cfg
    <3>2. \A w : Sendable(w)' = Sendable(w)
      BY <2>2, Steady
    <3>. QED
      BY <2>6, <3>1, <3>2
  <2>. QED
    BY <1>1, <2>1, <2>2, <2>7 DEF PathInv, Untouched
<1>6. CASE PlanFailed
  <2>1. Untouched /\ wire = Null /\ Refuse /\ UNCHANGED <<plan, cmd, params, wire, ran, replies>>
    BY <1>6 DEF PathInv, PlanFailed, KeepPlan
  <2>. QED
    BY <1>1, <2>1, RefusePathInv
<1>7. CASE Send
  <2>1. at = "send" /\ Sendable(wire) /\ Untouched
    BY <1>7 DEF PathInv, Send
  <2>2. UNCHANGED <<plan, cmd, params, ran, replies>>
    BY <1>7 DEF Send, KeepPlan
  <2>3. CASE Refuse /\ UNCHANGED wire
    BY <1>1, <2>1, <2>2, <2>3, RefusePathInv
  <2>4. CASE at' = "kos" /\ wire' = encode_dict_value(wire) /\ UNCHANGED heard
    <3>1. Enclosed'
      BY <2>1, <2>2, <2>4, Steady DEF Enclosed
    <3>. QED
      BY <1>1, <2>1, <2>2, <2>4, <3>1 DEF PathInv, Untouched
  <2>. QED
    BY <1>7, <2>3, <2>4 DEF Send
<1>8. CASE HandleMessage
  <2>1. at' = "back" /\ Executed' /\ UNCHANGED <<plan, cmd, params, wire>> /\ Enclosed
    BY <1>8, KosRuns DEF HandleMessage, KeepPlan, PathInv
  <2>2. Enclosed'
    BY <2>1, Steady DEF Enclosed
  <2>. QED
    BY <1>1, <2>1, <2>2 DEF PathInv
<1>9. CASE Hear
  <2>1. at = "back" /\ Enclosed /\ Executed /\ UNCHANGED <<plan, cmd, params, wire>>
    BY <1>9 DEF Hear, KeepPlan, PathInv
  <2>2. Enclosed' /\ Executed'
    BY <1>9, <2>1, Steady, HearExecuted DEF Enclosed
  <2>3. \/ at' = "back"
        \/ at' = "over" /\ replies' = <<>>
    BY <1>9, <2>1 DEF Hear
  <2>. QED
    BY <1>1, <2>1, <2>2, <2>3 DEF PathInv
<1>10. CASE UNCHANGED pathVars
  <2>1. UNCHANGED <<plan, cmd, params>> /\ UNCHANGED <<at, wire, ran, replies, heard>>
    BY <1>10 DEF pathVars, command
  <2>2. /\ Op' = Op /\ AskedFor' = AskedFor /\ Button' = Button /\ Events' = Events /\ Hearable' = Hearable
        /\ NotFound' = NotFound
        /\ \A cfg : PlannedCfg(cfg)' = PlannedCfg(cfg)
        /\ \A w : Sendable(w)' = Sendable(w)
    BY <2>1, Steady
  <2>3. /\ Untouched' = Untouched /\ Refused' = Refused /\ Ignored' = Ignored /\ Enclosed' = Enclosed
        /\ \A h : Hears(h)' = Hears(h)
    BY <2>1, <2>2 DEF Untouched, Refused, Ignored, Enclosed, Hears
  <2>4. Launched' = Launched /\ Answered' = Answered
    BY <2>1, <2>2, <2>3 DEF Launched, Answered
  <2>5. Executed => Executed'
    BY <2>1, <2>2, <2>3, <2>4 DEF Executed
  <2>. QED
    BY <1>1, <2>1, <2>2, <2>3, <2>5 DEF PathInv
<1>. QED
  BY <1>2, <1>3, <1>4, <1>5, <1>6, <1>7, <1>8, <1>9, <1>10 DEF PathNext

LEMMA PathInvAlways == PathSpec => [](PlanInv /\ PathInv)
<1>1. PathInit => PathInv
  BY InitPathInv
<1>2. PlanInv /\ PathInv /\ [PathNext]_pathVars => PathInv'
  BY NextPathInv
<1>3. PathSpec => []PlanInv
  BY PathPlans, PlanInvAlways, PTL
<1>. QED
  BY <1>1, <1>2, <1>3, PTL DEF PathSpec

-----------------------------------------------------------------------------
(* What a plan consists of.                                                *)
LEMMA PayloadIs ==
  ASSUME NEW v, NEW pitch
  PROVE  LET cfg == LaunchPayload(v, pitch) IN
         /\ DOMAIN cfg = LaunchReads
         /\ cfg["vMin"] = v /\ cfg["terminalPitch"] = pitch
         /\ cfg["altPhase2Entry"] = Num(entry) /\ cfg["terrainMax"] = Num(terrain)
         /\ \A k \in ParamKeys \ {"qAuth"} : cfg[k] = params[k]
<1>1. ParamKeys = {"finalAltitude", "targetInclination", "targetLan", "qMax", "qAuth", "qHigh", "aMaxHigh",
                   "aMaxLow", "initialProfilePitch", "tApTarget", "throttleMin", "circularize"}
  BY DEF ParamKeys, Fields
<1>2. ParamKeys \cap {"terrainMax", "vMin", "altPhase2Entry", "terminalPitch"} = {}
  BY <1>1
<1>. QED
  BY <1>2, Zenon DEF LaunchPayload, LaunchReads

LEMMA LaunchedPlan ==
  ASSUME PathInv, Launched
  PROVE  PlannedCfg(ran.cfg)
<1>1. ~Untouched /\ ~Refused /\ ~Ignored
  BY DEF Launched, Untouched, Refused, Ignored
<1>. QED
  BY <1>1 DEF PathInv, Executed

LEMMA Product == \A x, y \in Int : x > 0 /\ y > 0 => x * y > 0
  BY SMT

LEMMA PathKeys == PlanInv /\ PathInv => KeysDefined
<1>. SUFFICES ASSUME PlanInv, PathInv PROVE KeysDefined
  OBVIOUS
<1>1. ASSUME Launched, NEW k \in LaunchReads
      PROVE  /\ k \in DOMAIN ran.cfg
             /\ ran.cfg[k] = Null =>
                  \/ k = "vMin" /\ params["qAuth"].num < 0
                  \/ /\ k = "terminalPitch"
                     /\ terrain <= 0 \/ params["finalAltitude"].num < 0 \/ params["tApTarget"].num < 0
  <2>1. PlannedCfg(ran.cfg)
    BY <1>1, LaunchedPlan
  <2>2. PICK thin \in BOOLEAN, pitch \in TerminalPitches : ran.cfg = LaunchPayload(VMin(thin), pitch)
    BY <2>1 DEF PlannedCfg
  <2>3. /\ params["finalAltitude"].num \in Int /\ params["qAuth"].num \in Int /\ params["tApTarget"].num \in Int
        /\ \A j \in ParamKeys : Typed(j, params[j])
    <3>1. {"finalAltitude", "qAuth", "tApTarget"} \subseteq ParamKeys
      BY DEF ParamKeys, Fields
    <3>. QED
      BY <2>1, <3>1 DEF PlannedCfg, AskedFor, Numbers
  <2>4. entry \in Int /\ terrain \in Int /\ (terrain > 0 => entry > 0)
    <3>1. step = "done" /\ EntryPlaced /\ TypeOK
      BY <2>1 DEF PlannedCfg, PlanInv
    <3>2. entry \in Int /\ terrain \in Int /\ a \in Int
      BY <3>1 DEF TypeOK
    <3>. QED
      BY <3>1, <3>2 DEF EntryPlaced
  <2>5. ASSUME terrain > 0, params["finalAltitude"].num >= 0 PROVE VEstDefined
    <3>1. CASE params["finalAltitude"].num > 0
      BY <2>3, <2>4, <2>5, <3>1, Product DEF VEstDefined
    <3>2. CASE params["finalAltitude"].num = 0
      BY <2>4, <2>5, <3>2 DEF VEstDefined
    <3>. QED
      BY <2>3, <2>5, <3>1, <3>2
  <2>6. \A n : Num(n) # Null
    BY Kinds, OneKind
  <2>7. pitch = Null => terrain <= 0 \/ params["finalAltitude"].num < 0 \/ params["tApTarget"].num < 0
    <3>1. SUFFICES ASSUME terrain > 0, params["finalAltitude"].num >= 0, params["tApTarget"].num >= 0
                   PROVE  pitch # Null
      BY <2>3, <2>4
    <3>2. VEstDefined
      BY <2>5, <3>1
    <3>. HIDE DEF Null
    <3>. QED
      BY <2>3, <2>6, <3>1, <3>2 DEF TerminalPitches
  <2>8. VMin(thin) = Null => params["qAuth"].num < 0
    BY <2>6 DEF VMin
  <2>9. \A j \in ParamKeys : params[j] # Null
    <3>1. ~Is(Null, "num") /\ ~Is(Null, "bool")
      BY Kinds, OneKind
    <3>. QED
      BY <2>3, <3>1 DEF Typed
  <2>10. k \in ParamKeys \ {"qAuth"} \/ k \in {"terrainMax", "vMin", "altPhase2Entry", "terminalPitch"}
    BY <1>1 DEF LaunchReads
  <2>11. /\ DOMAIN ran.cfg = LaunchReads
         /\ ran.cfg["vMin"] = VMin(thin) /\ ran.cfg["terminalPitch"] = pitch
         /\ ran.cfg["altPhase2Entry"] = Num(entry) /\ ran.cfg["terrainMax"] = Num(terrain)
         /\ \A j \in ParamKeys \ {"qAuth"} : ran.cfg[j] = params[j]
    BY <2>2, PayloadIs
  <2>12. ran.cfg[k] = Null => k \in {"vMin", "terminalPitch"}
    <3>. HIDE DEF Null
    <3>. QED
      BY <2>6, <2>9, <2>10, <2>11
  <2>. HIDE DEF Null
  <2>. QED
    BY <1>1, <2>7, <2>8, <2>11, <2>12
<1>2. ASSUME Op = "plan_circ", ran.op = "add_node"
      PROVE  Is(ran.dv, "num") /\ Is(ran.ut, "num")
  <2>1. ~Untouched /\ ~Refused /\ ~Ignored
    BY <1>2 DEF Untouched, Refused, Ignored
  <2>2. ran.dv = Num(1) /\ ran.ut = Num(1)
    BY <1>2, <2>1 DEF PathInv, Executed
  <2>. QED
    BY <2>2, Kinds
<1>. QED
  BY <1>1, <1>2 DEF KeysDefined

(* launch_planning.rs:11-14: launch.ks is never started without one of the *)
(* keys it reads, on any body, site and command, and the two keys that can *)
(* be Null are so only over ground at or below the datum or for values     *)
(* below zero.                                                             *)
THEOREM KeysAlwaysDefined == PathSpec => []KeysDefined
  BY PathInvAlways, PathKeys, PTL

LEMMA FaultyRefused == Faulty => ~Accepted(Asked)
  BY Kinds, OneKind DEF Faulty, Accepted

LEMMA PathAsAsked == PlanInv /\ PathInv => LaunchAsAsked
<1>. SUFFICES ASSUME PlanInv, PathInv PROVE LaunchAsAsked
  OBVIOUS
<1>1. ASSUME Launched, ~Is(Asked, "arr"), NEW k \in DOMAIN ran.cfg
      PROVE  /\ k \in ParamKeys => ran.cfg[k] = IF Offered(k) THEN Asked.obj[k] ELSE Default(k)
             /\ k = "altPhase2Entry" => ran.cfg[k] = Num(entry)
             /\ k = "terrainMax" => ran.cfg[k] = Num(terrain)
  <2>1. PlannedCfg(ran.cfg)
    BY <1>1, LaunchedPlan
  <2>2. PICK thin \in BOOLEAN, pitch \in TerminalPitches : ran.cfg = LaunchPayload(VMin(thin), pitch)
    BY <2>1 DEF PlannedCfg
  <2>3. /\ DOMAIN ran.cfg = LaunchReads
        /\ ran.cfg["altPhase2Entry"] = Num(entry) /\ ran.cfg["terrainMax"] = Num(terrain)
        /\ \A j \in ParamKeys \ {"qAuth"} : ran.cfg[j] = params[j]
    BY <2>2, PayloadIs
  <2>4. "qAuth" \notin LaunchReads
    BY DEF LaunchReads
  <2>5. k \in ParamKeys => ran.cfg[k] = params[k]
    BY <1>1, <2>3, <2>4
  <2>6. k \in ParamKeys => params[k] = IF Offered(k) THEN Asked.obj[k] ELSE Default(k)
    <3>1. params = FromArgs(Asked)
      BY <2>1 DEF PlannedCfg, AskedFor
    <3>2. CASE Is(Asked, "obj")
      BY <3>1, <3>2 DEF FromArgs, Offered
    <3>3. CASE ~Is(Asked, "obj")
      <4>1. FromArgs(Asked) = [j \in ParamKeys |-> IF j \in DOMAIN <<>> THEN <<>>[j] ELSE Default(j)]
        BY <1>1, <3>3, Zenon DEF FromArgs
      <4>2. DOMAIN <<>> = {}
        BY SMT
      <4>3. k \in ParamKeys => FromArgs(Asked)[k] = Default(k)
        BY <4>1, <4>2, Zenon
      <4>. QED
        BY <3>1, <3>3, <4>3 DEF Offered
    <3>. QED
      BY <3>2, <3>3
  <2>. QED
    BY <2>3, <2>5, <2>6
<1>2. ASSUME IsLaunch, Faulty
      PROVE  wire = Null /\ ~Launched
  <2>1. ~Accepted(Asked)
    BY <1>2, FaultyRefused
  <2>2. ~AskedFor /\ \A cfg : ~PlannedCfg(cfg)
    BY <2>1 DEF AskedFor, PlannedCfg
  <2>3. \A w : ~Sendable(w)
    BY <1>2, <2>2 DEF Sendable, IsLaunch
  <2>4. ~Enclosed
    BY <2>3 DEF Enclosed
  <2>5. ~Launched
    BY <2>2, LaunchedPlan
  <2>. QED
    BY <2>2, <2>3, <2>4, <2>5 DEF PathInv, Refused, Ignored
<1>. QED
  BY <1>1, <1>2 DEF LaunchAsAsked

(* docs/launch.md:132-134, for every command: launch.ks flies with what    *)
(* was asked for and planned, and a faulty form launches nothing.          *)
THEOREM AlwaysLaunchAsAsked == PathSpec => []LaunchAsAsked
  BY PathInvAlways, PathAsAsked, PTL

LEMMA PathAnswered == PathInv => ButtonAnswered
<1>. SUFFICES ASSUME PathInv, at = "over", Button
              PROVE  /\ heard # <<>>
                     /\ IF ran.op # "none"
                        THEN heard[1] = [kind |-> "command_ack", op |-> ran.op]
                        ELSE \/ heard[1] = [kind |-> "command_error", op |-> Op]
                             \/ Op = "run_script" /\ heard[1] = NotFound
  BY DEF ButtonAnswered
<1>1. CASE Refused
  BY <1>1 DEF Refused
<1>2. CASE Executed /\ replies = <<>>
  <2>1. Answered
    BY <1>2 DEF Executed
  <2>2. \A h : Hears(h) => heard # <<>> /\ heard[1] = h
    BY <1>2 DEF Hears
  <2>. QED
    BY <2>1, <2>2 DEF Answered, AckOf
<1>3. ~Ignored
  <2>1. SUFFICES ASSUME ~Is(cmd, "obj") PROVE FALSE
    BY DEF Ignored
  <2>2. Get(cmd, "op") = Null /\ ~Is(Null, "str")
    BY <2>1, Kinds, OneKind DEF Get
  <2>3. Op = "unknown"
    BY <2>2 DEF Op, StrOr
  <2>. QED
    BY <2>3 DEF Button, IsLaunch
<1>. QED
  BY <1>1, <1>2, <1>3 DEF PathInv

(* Whatever the boot id, the body and the values, and whether or not the   *)
(* scripts are on the disk: what a button sends is executed and            *)
(* acknowledged, or refused aloud and not executed.                        *)
THEOREM ButtonAlwaysAnswered == PathSpec => []ButtonAnswered
  BY PathInvAlways, PathAnswered, PTL

LEMMA PathHeard == PathInv => HeardAsSaid
<1>. SUFFICES ASSUME PathInv PROVE HeardAsSaid
  OBVIOUS
<1>1. CASE Untouched \/ Ignored
  <2>1. heard = <<>> /\ DOMAIN heard = {}
    BY <1>1 DEF Untouched, Ignored
  <2>. QED
    BY <2>1, Zenon DEF HeardAsSaid
<1>2. CASE Refused
  <2>1. heard[1].kind = "command_error" /\ DOMAIN heard = {1}
    BY <1>2 DEF Refused
  <2>2. Dropped.kind = "dropped"
    BY DEF Dropped
  <2>. QED
    BY <2>1, <2>2 DEF HeardAsSaid
<1>3. CASE Executed
  <2>1. heard \in Seq(Hearable)
    BY <1>3 DEF Executed
  <2>2. \A i \in DOMAIN heard : heard[i] \in Hearable
    BY <2>1
  <2>3. Op = "ping" /\ heard # <<>> => heard[1] = BeatOf
    BY <1>3 DEF Executed, Hears
  <2>. QED
    BY <2>2, <2>3, HearableIs DEF HeardAsSaid, BeatOf
<1>. QED
  BY <1>1, <1>2, <1>3 DEF PathInv

(* Of an event in either shape of its envelope nothing is lost.            *)
THEOREM AlwaysHeardAsSaid == PathSpec => []HeardAsSaid
  BY PathInvAlways, PathHeard, PTL
=============================================================================
