-------------------------- MODULE FrameMoverProofs --------------------------
(***************************************************************************)
(* The loops of move_frame and slide_frames compute MoveFrame, and the two *)
(* searches find the first extreme, for an array of any length and any     *)
(* counts.                                                                 *)
(***************************************************************************)
EXTENDS MCFrameMover, LoopLemmas

(* The indices stay inside the array, so neither loop writes outside.      *)
THEOREM MoverTypeCorrect == Spec => []TypeOK
<1>1. Init => TypeOK
  BY DEF Init, TypeOK
<1>2. TypeOK /\ [Next]_vars => TypeOK'
  <2> SUFFICES ASSUME TypeOK, [Next]_vars PROVE TypeOK'
    OBVIOUS
  <2>1. CASE Swap
    <3>1. idx' \in Index
      BY <2>1, LastAssumption DEF Swap, Step, TypeOK, Index
    <3>2. frames' \in [Index -> Frame]
      BY <2>1, <3>1 DEF Swap, swap_frames, TypeOK
    <3> QED
      BY <2>1, <3>1, <3>2 DEF Swap, TypeOK
  <2>2. CASE Shift
    <3>1. idx - 1 \in Index
      BY <2>2, LastAssumption DEF Shift, TypeOK, Index
    <3>2. frames' \in [Index -> Frame]
      BY <2>2, <3>1 DEF Shift, TypeOK
    <3> QED
      BY <2>2, <3>1, <3>2 DEF Shift, TypeOK
  <2>3. CASE PutFirst
    <3>1. last_frame \in Frame
      BY DEF TypeOK, last_frame
    <3> QED
      BY <2>3, <3>1 DEF PutFirst, TypeOK
  <2> QED
    BY <2>1, <2>2, <2>3 DEF Next, Carry, vars, TypeOK
<1> QED
  BY <1>1, <1>2, PTL DEF Spec

(* A swap with a neighbour takes one MoveFrame to the next.                *)
LEMMA SwapExtends ==
  ASSUME NEW f \in [Index -> Frame], NEW a \in Index, NEW i \in Index, NEW to \in Index,
         to = i + 1 \/ to = i - 1
  PROVE  swap_frames(MoveFrame(f, a, i), i, to) = MoveFrame(f, a, to)
<1> DEFINE g == MoveFrame(f, a, i)
           h == swap_frames(g, i, to)
<1>1. i \in Nat /\ a \in Nat /\ DOMAIN f = Index
  BY DEF Index
<1>2. DOMAIN g = Index
  BY <1>1 DEF MoveFrame
<1>3. \A m \in Index : g[m] = MoveFrame(f, a, i)[m]
  OBVIOUS
<1> HIDE DEF g
<1>4. ASSUME NEW k \in Index PROVE h[k] = MoveFrame(f, a, to)[k]
  <2>1. h[k] = IF k = i THEN g[to] ELSE IF k = to THEN g[i] ELSE g[k]
    BY <1>1, <1>2 DEF swap_frames
  <2>2. k \in Nat
    BY DEF Index
  <2> HIDE DEF h
  <2>3. CASE k = to
    <3>1. h[k] = f[a]
      BY <1>1, <1>3, <2>1, <2>3 DEF MoveFrame
    <3> QED
      BY <1>1, <2>3, <3>1 DEF MoveFrame
  <2>4. CASE k = i
    <3>1. h[k] = MoveFrame(f, a, i)[to]
      BY <1>1, <1>3, <2>1, <2>4
    <3> QED
      BY <1>1, <2>2, <2>4, <3>1 DEF MoveFrame
  <2>5. CASE k # to /\ k # i
    <3>1. h[k] = MoveFrame(f, a, i)[k]
      BY <1>3, <2>1, <2>5
    <3> QED
      BY <1>1, <2>2, <2>5, <3>1 DEF MoveFrame
  <2> QED
    BY <2>3, <2>4, <2>5
<1>5. h = [k \in Index |-> h[k]]
  BY <1>2 DEF swap_frames
<1>6. MoveFrame(f, a, to) = [k \in Index |-> MoveFrame(f, a, to)[k]]
  BY <1>1 DEF MoveFrame
<1> HIDE DEF h
<1>7. h = MoveFrame(f, a, to)
  BY <1>4, <1>5, <1>6
<1> QED
  BY <1>7 DEF h, g

(* A shift into the gap is a swap of the array that holds the frame there. *)
LEMMA ShiftIsSwap ==
  ASSUME NEW f \in [Index -> Frame], NEW i \in Index, i - 1 \in Index, NEW x \in Frame
  PROVE  [[f EXCEPT ![i] = f[i - 1]] EXCEPT ![i - 1] = x]
           = swap_frames([f EXCEPT ![i] = x], i, i - 1)
<1> DEFINE j == i - 1
           p == [f EXCEPT ![i] = f[j]]
           q == [f EXCEPT ![i] = x]
           lhs == [p EXCEPT ![j] = x]
           rhs == swap_frames(q, i, j)
<1>1. j \in Index /\ j # i
  BY DEF Index
<1> HIDE DEF j
<1>2. p \in [Index -> Frame] /\ \A k \in Index : p[k] = IF k = i THEN f[j] ELSE f[k]
  BY <1>1
<1>3. q \in [Index -> Frame] /\ \A k \in Index : q[k] = IF k = i THEN x ELSE f[k]
  OBVIOUS
<1> HIDE DEF p, q
<1>4. lhs \in [Index -> Frame]
      /\ \A k \in Index : lhs[k] = IF k = j THEN x ELSE p[k]
  BY <1>1, <1>2
<1>5. rhs \in [Index -> Frame]
      /\ \A k \in Index : rhs[k] = IF k = j THEN q[i] ELSE IF k = i THEN q[j] ELSE q[k]
  BY <1>1, <1>3 DEF swap_frames
<1> HIDE DEF lhs, rhs
<1>6. \A k \in Index : lhs[k] = rhs[k]
  BY <1>1, <1>2, <1>3, <1>4, <1>5
<1>7. lhs = rhs
  BY <1>4, <1>5, <1>6
<1> QED
  BY <1>7 DEF lhs, rhs, p, q, j

(* After every turn of either loop the frame, or the gap kept for it, has  *)
(* moved as far as idx and nothing else has changed its order.             *)
THEOREM MovesOneFrame == Spec => []MovedSoFar
<1>1. Init => MovedSoFar
  <2> SUFFICES ASSUME Init PROVE MovedSoFar
    OBVIOUS
  <2>1. frames \in [Index -> Frame] /\ frames = given /\ from = idx /\ from \in Nat
        /\ from \in Index
    BY DEF Init, Index
  <2>2. \A k \in Index : k \in Nat
    BY DEF Index
  <2>3. frames = MoveFrame(given, from, idx)
    BY <2>1, <2>2 DEF MoveFrame
  <2>4. [frames EXCEPT ![idx] = last_frame] = frames
    BY <2>1 DEF last_frame
  <2> QED
    BY <2>3, <2>4 DEF MovedSoFar
<1>2. TypeOK /\ MovedSoFar /\ [Next]_vars => MovedSoFar'
  <2> SUFFICES ASSUME TypeOK, MovedSoFar, [Next]_vars PROVE MovedSoFar'
    OBVIOUS
  <2>1. /\ frames \in [Index -> Frame] /\ given \in [Index -> Frame]
        /\ idx \in Index /\ from \in Index /\ last_frame \in Frame
    BY DEF TypeOK, last_frame
  <2>2. CASE Swap
    <3> DEFINE to == idx + Step
    <3>1. to \in Index /\ (to = idx + 1 \/ to = idx - 1)
      BY <2>2, LastAssumption DEF Swap, Step, TypeOK, Index
    <3>2. frames' = swap_frames(frames, idx, to) /\ idx' = to /\ ~sliding'
          /\ ~sliding /\ UNCHANGED <<given, from>>
      BY <2>2 DEF Swap
    <3> HIDE DEF to
    <3>3. frames = MoveFrame(given, from, idx)
      BY <3>2 DEF MovedSoFar
    <3>4. frames' = MoveFrame(given, from, to)
      BY <2>1, <3>1, <3>2, <3>3, SwapExtends
    <3> QED
      BY <3>2, <3>4 DEF MovedSoFar
  <2>3. CASE Shift
    <3>1. idx - 1 \in Index
      BY <2>3, LastAssumption DEF Shift, TypeOK, Index
    <3>2. frames' = [frames EXCEPT ![idx] = frames[idx - 1]] /\ idx' = idx - 1
          /\ sliding /\ sliding' /\ UNCHANGED <<given, from>>
      BY <2>3 DEF Shift
    <3> DEFINE held == [frames EXCEPT ![idx] = last_frame]
    <3>3. held = MoveFrame(given, from, idx)
      BY <3>2 DEF MovedSoFar
    <3>4. [frames' EXCEPT ![idx - 1] = last_frame] = swap_frames(held, idx, idx - 1)
      BY <2>1, <3>1, <3>2, ShiftIsSwap
    <3> HIDE DEF held
    <3>5. [frames' EXCEPT ![idx - 1] = last_frame] = MoveFrame(given, from, idx - 1)
      BY <2>1, <3>1, <3>3, <3>4, SwapExtends
    <3>6. last_frame' = last_frame
      BY <3>2 DEF last_frame
    <3> QED
      BY <3>2, <3>5, <3>6 DEF MovedSoFar
  <2>4. CASE PutFirst
    <3>1. frames' = [frames EXCEPT ![idx] = last_frame] /\ sliding /\ ~sliding'
          /\ UNCHANGED <<idx, given, from>>
      BY <2>4 DEF PutFirst
    <3> QED
      BY <3>1 DEF MovedSoFar
  <2>5. CASE UNCHANGED vars
    BY <2>5 DEF vars, MovedSoFar, last_frame
  <2> QED
    BY <2>2, <2>3, <2>4, <2>5 DEF Next, Carry
<1> QED
  BY <1>1, <1>2, MoverTypeCorrect, PTL DEF Spec
-----------------------------------------------------------------------------
(***************************************************************************)
(* The searches.  What they compute is a recursive function over the list; *)
(* induction over it rests on the least element of a set of numbers.       *)
(***************************************************************************)
(* The first n frames have counts.                                         *)
HasCounts(poc, n) == \A i \in 0 .. n - 1 : poc[i] \in Int

(* The runs of a search: the best frame so far, turn after turn.           *)
SearchRuns(poc, empty, n, bound, start_stop, after, sign) ==
  {f \in [0 .. n -> [frame_id : Int, count : Int]] :
     /\ f[0] = [frame_id |-> -1, count |-> bound]
     /\ \A i \in 1 .. n :
          f[i] = Look(poc, empty, start_stop, after, sign, i - 1, f[i - 1])}

(* The search is the value after the last turn.                            *)
LEMMA SearchTurns ==
  ASSUME NEW n \in Nat, NEW poc, HasCounts(poc, n),
         NEW empty, NEW bound \in Int, NEW start_stop, NEW after, NEW sign
  PROVE  \E f \in SearchRuns(poc, empty, n, bound, start_stop, after, sign) :
           Search(poc, empty, n, bound, start_stop, after, sign) = f[n].frame_id
<1> DEFINE S         == [frame_id : Int, count : Int]
           first     == [frame_id |-> -1, count |-> bound]
           Turn(i,b) == Look(poc, empty, start_stop, after, sign, i - 1, b)
           turn      == [i \in 1 .. n |-> [b \in S |-> Turn(i, b)]]
           Loop(f)   == [i \in 0 .. n |-> IF i = 0 THEN first ELSE Turn(i, f[i - 1])]
<1>1. first \in S
  OBVIOUS
<1>2. ASSUME NEW i \in 1 .. n, NEW b \in S PROVE Turn(i, b) \in S
  <2>1. i - 1 \in 0 .. n - 1 /\ i - 1 \in Int
    OBVIOUS
  <2> QED
    BY <2>1 DEF Look, HasCounts
<1> HIDE DEF Turn, S, first
<1>3. turn \in [1 .. n -> [S -> S]]
  BY <1>2
<1>4. PICK f \in Runs(n, S, first, turn) : TRUE
  <2> HIDE DEF turn
  <2> QED
    BY <1>1, <1>3, LoopRuns
<1>5. /\ f \in [0 .. n -> S] /\ f[0] = first
      /\ \A i \in 1 .. n : f[i] = Turn(i, f[i - 1])
  <2>1. /\ f \in [0 .. n -> S] /\ f[0] = first
        /\ \A i \in 1 .. n : f[i] = turn[i][f[i - 1]]
    BY <1>4 DEF Runs
  <2>2. ASSUME NEW i \in 1 .. n PROVE f[i - 1] \in S
    <3>1. i - 1 \in 0 .. n
      OBVIOUS
    <3> QED
      BY <2>1, <3>1
  <2> QED
    BY <2>1, <2>2
<1>6. f = Loop(f)
  BY <1>5
<1> DEFINE chosen == CHOOSE g : g = Loop(g)
<1>7. chosen = Loop(chosen)
  BY <1>6
<1>8. Search(poc, empty, n, bound, start_stop, after, sign) = chosen[n].frame_id
  BY DEF Search, first, Turn
<1> HIDE DEF chosen
<1>9. chosen[n] = f[n]
  <2> DEFINE T == {m \in 0 .. n : chosen[m] # f[m]}
  <2>1. SUFFICES ASSUME n \in T PROVE FALSE
    OBVIOUS
  <2>2. PICK m \in T : \A k \in T : m <= k
    <3>1. T \subseteq Nat
      OBVIOUS
    <3> HIDE DEF T
    <3>2. T # {}
      BY <2>1
    <3> QED
      BY <3>1, <3>2, LeastNatural
  <2>3. m \in 0 .. n /\ chosen[m] # f[m]
    OBVIOUS
  <2>4. m # 0
    BY <1>5, <1>7, <2>3
  <2>5. m \in 1 .. n /\ m - 1 \in 0 .. n
    BY <2>3, <2>4
  <2>6. m - 1 \notin T
    <3>1. ~ (m <= m - 1)
      BY <2>3
    <3> HIDE DEF T
    <3> QED
      BY <2>2, <3>1
  <2>7. chosen[m - 1] = f[m - 1]
    BY <2>5, <2>6
  <2>8. chosen[m] = Turn(m, chosen[m - 1])
    BY <1>7, <2>3, <2>4
  <2> QED
    BY <1>5, <2>3, <2>5, <2>7, <2>8
<1>10. f \in SearchRuns(poc, empty, n, bound, start_stop, after, sign)
  BY <1>5 DEF SearchRuns, S, first, Turn
<1> QED
  BY <1>8, <1>9, <1>10

(* What a search is to find: the first of the best of the frames it does   *)
(* not skip, out of those better than the bound, or -1 when there is none. *)
Finds(id, poc, empty, n, bound, start_stop, after, sign) ==
  LET in(i) == ~Skipped(poc, empty, start_stop, after, i)
  IN  \/ /\ id = -1
         /\ \A j \in 0 .. n - 1 : in(j) => ~ (sign * poc[j] < sign * bound)
      \/ /\ id \in 0 .. n - 1 /\ in(id) /\ sign * poc[id] < sign * bound
         /\ \A j \in 0 .. n - 1 :
              in(j) /\ j # id => \/ sign * poc[id] < sign * poc[j]
                                 \/ poc[id] = poc[j] /\ id < j

(* Every run ends with what the search is to find.                         *)
LEMMA BestSoFar ==
  ASSUME NEW n \in Nat, NEW poc, HasCounts(poc, n),
         NEW empty, NEW bound \in Int, NEW start_stop, NEW after, NEW sign \in {-1, 1},
         NEW f \in SearchRuns(poc, empty, n, bound, start_stop, after, sign)
  PROVE  Finds(f[n].frame_id, poc, empty, n, bound, start_stop, after, sign)
<1> DEFINE in(i)     == ~Skipped(poc, empty, start_stop, after, i)
           less(a,b) == sign * a < sign * b
           best(k)   ==
             \/ /\ f[k].frame_id = -1 /\ f[k].count = bound
                /\ \A j \in 0 .. k - 1 : in(j) => ~less(poc[j], bound)
             \/ /\ f[k].frame_id \in 0 .. k - 1 /\ f[k].count = poc[f[k].frame_id]
                /\ in(f[k].frame_id) /\ less(f[k].count, bound)
                /\ \A j \in 0 .. k - 1 :
                     in(j) /\ j # f[k].frame_id =>
                       \/ less(f[k].count, poc[j])
                       \/ f[k].count = poc[j] /\ f[k].frame_id < j
           T         == {m \in 0 .. n : ~best(m)}
<1>0. /\ f \in [0 .. n -> [frame_id : Int, count : Int]]
      /\ f[0] = [frame_id |-> -1, count |-> bound]
      /\ \A i \in 1 .. n :
           f[i] = Look(poc, empty, start_stop, after, sign, i - 1, f[i - 1])
  BY DEF SearchRuns
<1>1. /\ \A a, b, c \in Int : less(a, b) /\ less(b, c) => less(a, c)
      /\ \A a, b \in Int : less(a, b) \/ a = b \/ less(b, a)
      /\ \A a \in Int : ~less(a, a)
      /\ \A a, b, c \in Int : less(a, b) /\ ~less(c, b) => less(a, c)
  <2>1. sign = 1 \/ sign = -1
    OBVIOUS
  <2>2. CASE sign = 1
    BY <2>2
  <2>3. CASE sign = -1
    BY <2>3
  <2> QED
    BY <2>1, <2>2, <2>3
<1>2. \A i \in 1 .. n :
        f[i] = IF in(i - 1) /\ less(poc[i - 1], f[i - 1].count)
                 THEN [frame_id |-> i - 1, count |-> poc[i - 1]] ELSE f[i - 1]
  BY <1>0 DEF Look
<1>3. SUFFICES best(n)
  BY DEF Finds
<1> HIDE DEF in, less
<1>4. SUFFICES ASSUME n \in T PROVE FALSE
  OBVIOUS
<1>5. PICK m \in T : \A k \in T : m <= k
  <2>1. T \subseteq Nat
    <3> HIDE DEF best
    <3> QED
      OBVIOUS
  <2> HIDE DEF T
  <2>2. T # {}
    BY <1>4
  <2> QED
    BY <2>1, <2>2, LeastNatural
<1>6. m \in 0 .. n /\ ~best(m)
  OBVIOUS
<1>7. m # 0
  <2>1. best(0)
    BY <1>0
  <2> QED
    BY <1>6, <2>1
<1>8. m \in 1 .. n /\ m - 1 \in 0 .. n /\ m - 1 \in 0 .. n - 1 /\ m - 1 \in Nat
  BY <1>6, <1>7
<1>9. best(m - 1)
  <2>1. ~ (m <= m - 1)
    BY <1>6
  <2>2. m - 1 \notin T
    <3> HIDE DEF T
    <3> QED
      BY <1>5, <2>1
  <2> QED
    BY <1>8, <2>2
<1>10. /\ f[m - 1].count \in Int /\ poc[m - 1] \in Int
       /\ \A j \in 0 .. m - 1 : poc[j] \in Int /\ (j = m - 1 \/ j \in 0 .. (m - 1) - 1)
       /\ \A j \in 0 .. (m - 1) - 1 : j \in 0 .. m - 1 /\ j < m - 1 /\ j # m - 1
  BY <1>0, <1>8 DEF HasCounts
<1>11. CASE ~(in(m - 1) /\ less(poc[m - 1], f[m - 1].count))
  <2>1. f[m] = f[m - 1]
    BY <1>2, <1>8, <1>11
  <2>2. CASE f[m - 1].frame_id = -1
    <3>1. /\ f[m - 1].count = bound
          /\ \A j \in 0 .. (m - 1) - 1 : in(j) => ~less(poc[j], bound)
      BY <1>9, <2>2
    <3>2. \A j \in 0 .. m - 1 : in(j) => ~less(poc[j], bound)
      BY <1>10, <1>11, <3>1
    <3> QED
      BY <1>6, <2>1, <2>2, <3>1, <3>2
  <2>3. CASE f[m - 1].frame_id # -1
    <3> DEFINE id == f[m - 1].frame_id
               ct == f[m - 1].count
    <3>1. /\ id \in 0 .. (m - 1) - 1 /\ ct = poc[id] /\ in(id) /\ less(ct, bound)
          /\ \A j \in 0 .. (m - 1) - 1 :
               in(j) /\ j # id => less(ct, poc[j]) \/ (ct = poc[j] /\ id < j)
      BY <1>9, <2>3
    <3> HIDE DEF id, ct
    <3>2. in(m - 1) => less(ct, poc[m - 1]) \/ (ct = poc[m - 1] /\ id < m - 1)
      BY <1>1, <1>10, <1>11, <3>1 DEF ct
    <3>3. \A j \in 0 .. m - 1 :
            in(j) /\ j # id => less(ct, poc[j]) \/ (ct = poc[j] /\ id < j)
      BY <1>10, <3>1, <3>2
    <3>4. id \in 0 .. m - 1
      BY <1>10, <3>1
    <3> QED
      BY <1>6, <2>1, <3>1, <3>3, <3>4 DEF id, ct
  <2> QED
    BY <2>2, <2>3
<1>12. CASE in(m - 1) /\ less(poc[m - 1], f[m - 1].count)
  <2>1. f[m].frame_id = m - 1 /\ f[m].count = poc[m - 1]
    <3>1. f[m] = [frame_id |-> m - 1, count |-> poc[m - 1]]
      <4> HIDE DEF best, T
      <4> QED
        BY <1>2, <1>8, <1>12
    <3> QED
      BY <3>1
  <2>2. less(poc[m - 1], bound)
    <3>1. f[m - 1].count = bound \/ less(f[m - 1].count, bound)
      BY <1>9
    <3> QED
      BY <1>1, <1>10, <1>12, <3>1
  <2>3. ASSUME NEW j \in 0 .. m - 1, in(j), j # m - 1 PROVE less(poc[m - 1], poc[j])
    <3>1. j \in 0 .. (m - 1) - 1 /\ poc[j] \in Int
      BY <1>10, <2>3
    <3>2. CASE f[m - 1].frame_id = -1
      <4>1. f[m - 1].count = bound /\ ~less(poc[j], bound)
        BY <1>9, <2>3, <3>1, <3>2
      <4>2. less(poc[m - 1], bound)
        BY <1>12, <4>1
      <4> HIDE DEF best, T
      <4> QED
        BY <1>1, <1>10, <3>1, <4>1, <4>2
    <3>3. CASE f[m - 1].frame_id # -1
      <4> DEFINE ct == f[m - 1].count
      <4>1. ct = poc[j] \/ less(ct, poc[j])
        BY <1>9, <2>3, <3>1, <3>3
      <4>2. ct \in Int /\ less(poc[m - 1], ct)
        BY <1>10, <1>12
      <4> HIDE DEF best, T, ct
      <4> QED
        BY <1>1, <1>10, <3>1, <4>1, <4>2
    <3> QED
      BY <3>2, <3>3
  <2>4. best(m)
    BY <1>8, <1>12, <2>1, <2>2, <2>3
  <2> QED
    BY <1>6, <2>4
<1> QED
  BY <1>11, <1>12

(* A search returns what it is to find.                                    *)
LEMMA SearchAnswers ==
  ASSUME NEW n \in Nat, NEW poc, HasCounts(poc, n),
         NEW empty, NEW bound \in Int, NEW start_stop, NEW after, NEW sign \in {-1, 1}
  PROVE  Finds(Search(poc, empty, n, bound, start_stop, after, sign),
               poc, empty, n, bound, start_stop, after, sign)
<1>1. PICK f \in SearchRuns(poc, empty, n, bound, start_stop, after, sign) :
           Search(poc, empty, n, bound, start_stop, after, sign) = f[n].frame_id
  BY SearchTurns
<1> QED
  BY <1>1, BestSoFar

(* What a search asks for, as the caller reads it: the frames in the list, *)
(* not empty, on the right side of start_stop.                             *)
LEMMA EligibleFrames ==
  ASSUME TypeOK, NEW n \in 0 .. Last + 1, NEW empty,
         NEW start_stop \in Int, NEW after \in BOOLEAN
  PROVE  /\ \A i \in 0 .. n - 1 : i \in Nat /\ frames[i] \in Int
         /\ \A i \in 0 .. n - 1 :
              i \in Eligible(n, empty, start_stop, after)
                <=> ~Skipped(frames, empty, start_stop, after, i)
         /\ Eligible(n, empty, start_stop, after) \subseteq 0 .. n - 1
<1>1. ASSUME NEW i \in 0 .. n - 1 PROVE i \in Nat /\ frames[i] \in Int
  <2>1. i \in Index
    BY LastAssumption DEF Index
  <2>2. frames[i] \in Frame
    BY <2>1 DEF TypeOK
  <2>3. frames[i] \in Int
    BY <2>2, CountsAssumption, Zenon
  <2>4. i \in Nat
    OBVIOUS
  <2> QED
    BY <2>3, <2>4
<1>2. ASSUME NEW i \in 0 .. n - 1
      PROVE  i \in Eligible(n, empty, start_stop, after)
                <=> ~Skipped(frames, empty, start_stop, after, i)
  <2>1. CASE after
    BY <1>1, <2>1 DEF Eligible, Skipped
  <2>2. CASE ~after
    BY <1>1, <2>2 DEF Eligible, Skipped
  <2> QED
    BY <2>1, <2>2
<1>3. Eligible(n, empty, start_stop, after) \subseteq 0 .. n - 1
  BY DEF Eligible
<1> QED
  BY <1>1, <1>2, <1>3

(* The search for the least, from INT_MAX down.                            *)
LEMMA LeastFound ==
  ASSUME TypeOK, NEW n \in 0 .. Last + 1, NEW empty,
         NEW start_stop \in Int, NEW after \in BOOLEAN
  PROVE  FirstLeast({i \in Eligible(n, empty, start_stop, after) : frames[i] < IntMax},
                    frames)
           = {get_frame_id_with_least_pic_order_cnt(
                frames, empty, n, IntMax, start_stop, after)} \ {-1}
<1> DEFINE el == Eligible(n, empty, start_stop, after)
           id == get_frame_id_with_least_pic_order_cnt(
                   frames, empty, n, IntMax, start_stop, after)
           in(i) == ~Skipped(frames, empty, start_stop, after, i)
<1>1. n \in Nat
  BY LastAssumption
<1>2. /\ \A i \in 0 .. n - 1 : i \in Nat /\ frames[i] \in Int /\ (i \in el <=> in(i))
      /\ el \subseteq 0 .. n - 1
  BY EligibleFrames
<1>3. IntMax \in Int
  BY CountsAssumption
<1>4. Finds(id, frames, empty, n, IntMax, start_stop, after, 1)
  <2>1. 1 \in {-1, 1} /\ HasCounts(frames, n)
    BY <1>2 DEF HasCounts
  <2> QED
    BY <1>1, <1>3, <2>1, SearchAnswers DEF get_frame_id_with_least_pic_order_cnt
<1>5. /\ id = -1 => \A j \in 0 .. n - 1 : j \in el => ~ (frames[j] < IntMax)
      /\ id # -1 =>
           /\ id \in 0 .. n - 1 /\ id \in el /\ frames[id] < IntMax
           /\ \A j \in el : j # id => frames[id] < frames[j] \/ (frames[id] = frames[j] /\ id < j)
  BY <1>2, <1>3, <1>4 DEF Finds
<1> SUFFICES FirstLeast({i \in el : frames[i] < IntMax}, frames) = {id} \ {-1}
  OBVIOUS
<1> HIDE DEF id, el, in
<1>6. CASE id = -1
  BY <1>2, <1>5, <1>6 DEF FirstLeast
<1>7. CASE id # -1
  <2>1. /\ id \in 0 .. n - 1 /\ id \in el /\ frames[id] < IntMax
        /\ \A j \in el : j # id => frames[id] < frames[j] \/ (frames[id] = frames[j] /\ id < j)
    BY <1>5, <1>7
  <2>2. id \in FirstLeast({i \in el : frames[i] < IntMax}, frames)
    BY <2>1 DEF FirstLeast
  <2>3. ASSUME NEW k \in FirstLeast({i \in el : frames[i] < IntMax}, frames), k # id
        PROVE  FALSE
    <3>1. /\ k \in el /\ frames[k] < IntMax
          /\ frames[k] < frames[id] \/ (frames[k] = frames[id] /\ k < id)
      BY <2>1, <2>3 DEF FirstLeast
    <3>2. frames[id] < frames[k] \/ (frames[id] = frames[k] /\ id < k)
      BY <2>1, <2>3, <3>1
    <3> QED
      BY <1>2, <2>1, <3>1, <3>2
  <2> QED
    BY <1>7, <2>2, <2>3
<1> QED
  BY <1>6, <1>7

(* The search for the most, from -1 up.                                    *)
LEMMA MostFound ==
  ASSUME TypeOK, NEW n \in 0 .. Last + 1, NEW empty,
         NEW start_stop \in Int, NEW after \in BOOLEAN
  PROVE  FirstMost({i \in Eligible(n, empty, start_stop, after) : frames[i] > -1},
                   frames)
           = {get_frame_id_with_most_pic_order_cnt(
                frames, empty, n, -1, start_stop, after)} \ {-1}
<1> DEFINE el == Eligible(n, empty, start_stop, after)
           id == get_frame_id_with_most_pic_order_cnt(
                   frames, empty, n, -1, start_stop, after)
           in(i) == ~Skipped(frames, empty, start_stop, after, i)
<1>1. n \in Nat
  BY LastAssumption
<1>2. /\ \A i \in 0 .. n - 1 : i \in Nat /\ frames[i] \in Int /\ (i \in el <=> in(i))
      /\ el \subseteq 0 .. n - 1
  BY EligibleFrames
<1>4. Finds(id, frames, empty, n, -1, start_stop, after, -1)
  <2>1. -1 \in {-1, 1} /\ -1 \in Int /\ HasCounts(frames, n)
    BY <1>2 DEF HasCounts
  <2> QED
    BY <1>1, <2>1, SearchAnswers DEF get_frame_id_with_most_pic_order_cnt
<1>5. /\ id = -1 => \A j \in 0 .. n - 1 : j \in el => ~ (frames[j] > -1)
      /\ id # -1 =>
           /\ id \in 0 .. n - 1 /\ id \in el /\ frames[id] > -1
           /\ \A j \in el : j # id => frames[id] > frames[j] \/ (frames[id] = frames[j] /\ id < j)
  BY <1>2, <1>4 DEF Finds
<1> SUFFICES FirstMost({i \in el : frames[i] > -1}, frames) = {id} \ {-1}
  OBVIOUS
<1> HIDE DEF id, el, in
<1>6. CASE id = -1
  BY <1>2, <1>5, <1>6 DEF FirstMost
<1>7. CASE id # -1
  <2>1. /\ id \in 0 .. n - 1 /\ id \in el /\ frames[id] > -1
        /\ \A j \in el : j # id => frames[id] > frames[j] \/ (frames[id] = frames[j] /\ id < j)
    BY <1>5, <1>7
  <2>2. id \in FirstMost({i \in el : frames[i] > -1}, frames)
    BY <2>1 DEF FirstMost
  <2>3. ASSUME NEW k \in FirstMost({i \in el : frames[i] > -1}, frames), k # id
        PROVE  FALSE
    <3>1. /\ k \in el /\ frames[k] > -1
          /\ frames[k] > frames[id] \/ (frames[k] = frames[id] /\ k < id)
      BY <2>1, <2>3 DEF FirstMost
    <3>2. frames[id] > frames[k] \/ (frames[id] = frames[k] /\ id < k)
      BY <2>1, <2>3, <3>1
    <3> QED
      BY <1>2, <2>1, <3>1, <3>2
  <2> QED
    BY <1>7, <2>2, <2>3
<1> QED
  BY <1>6, <1>7

(* The searches find what their callers take them to find, on a list of    *)
(* any length, whatever its counts, its empty slots and the bound: the     *)
(* first extreme beyond the value they start from, and -1 only when there  *)
(* is none.                                                                *)
THEOREM SearchesFind == Spec => []SearchFinds
<1>1. TypeOK => SearchFinds
  <2> SUFFICES ASSUME TypeOK,
                      NEW n \in 0 .. Last + 1, NEW empty \in SUBSET Index,
                      NEW start_stop \in Frame \union {IntMax}, NEW after \in BOOLEAN
               PROVE  /\ FirstMost({i \in Eligible(n, empty, start_stop, after) : frames[i] > -1}, frames)
                           = {get_frame_id_with_most_pic_order_cnt(
                                frames, empty, n, -1, start_stop, after)} \ {-1}
                      /\ FirstLeast({i \in Eligible(n, empty, start_stop, after) : frames[i] < IntMax}, frames)
                           = {get_frame_id_with_least_pic_order_cnt(
                                frames, empty, n, IntMax, start_stop, after)} \ {-1}
    BY Zenon DEF SearchFinds
  <2>1. start_stop \in Int
    BY CountsAssumption
  <2> QED
    BY <2>1, LeastFound, MostFound
<1> QED
  BY <1>1, MoverTypeCorrect, PTL
=============================================================================
