------------------------- MODULE SettingMenuProofs -------------------------
(***************************************************************************)
(* Proofs about SettingMenu and HoldingRegisters, for any parameters of    *)
(* signed and unsigned types with any limits and widths, any steps, any    *)
(* stores of the preparations, any tree of items and any requests.         *)
(***************************************************************************)
EXTENDS SettingMenu, NaturalsInduction, WellFoundedInduction, TLAPS

\* The limits of a parameter are words of its type
LEMMA Limits ==
  ASSUME NEW p \in Params
  PROVE  /\ WordMin(p) \in Int /\ WordMax(p) \in Int /\ 2^Width[p] \in Nat /\ 2^Width[p] > 0
         /\ WordMax(p) = WordMin(p) + 2^Width[p] - 1
         /\ Lo[p] \in Words(p) /\ Hi[p] \in Words(p) /\ Def[p] \in Lo[p] .. Hi[p]
         /\ Lo[p] \in Int /\ Hi[p] \in Int /\ Lo[p] .. Hi[p] \subseteq Words(p)
<1>1. /\ 2^Width[p] \in Nat /\ 2^(Width[p] - 1) \in Nat
      /\ Lo[p] \in Words(p) /\ Hi[p] \in Words(p) /\ Def[p] \in Lo[p] .. Hi[p]
  BY ParamAssumption
<1>2. WordMin(p) \in Int
  BY <1>1 DEF WordMin
<1>3. WordMax(p) = WordMin(p) + 2^Width[p] - 1 /\ WordMax(p) \in Int
  BY <1>1, <1>2 DEF WordMax
<1>4. QED
  BY <1>1, <1>2, <1>3 DEF Words

\* A remainder is smaller than the divisor, and is the number if that is smaller
LEMMA Remainder ==
  ASSUME NEW x \in Int, NEW k \in Nat, k > 0
  PROVE  /\ x % k \in 0 .. k - 1
         /\ x \in 0 .. k - 1 => x % k = x
OBVIOUS

\* A number that is cut to a parameter's type is a word of it, and a word stays
LEMMA WordIsWord ==
  ASSUME NEW p \in Params, NEW n \in Int
  PROVE  /\ Word(p, n) \in Words(p)
         /\ n \in Words(p) => Word(p, n) = n
<1> DEFINE k == 2^Width[p]
           d == n - WordMin(p)
<1>1. k \in Nat /\ k > 0 /\ d \in Int /\ WordMin(p) \in Int /\ WordMax(p) = WordMin(p) + k - 1
  BY Limits
<1>2. d % k \in 0 .. k - 1 /\ (d \in 0 .. k - 1 => d % k = d)
  <2> HIDE DEF k, d
  <2>1. QED
    BY <1>1, Remainder
<1>3. Word(p, n) = WordMin(p) + (d % k)
  BY DEF Word
<1>4. n \in Words(p) => d \in 0 .. k - 1
  <2> HIDE DEF k
  <2>1. QED
    BY <1>1 DEF Words
<1>5. d = n - WordMin(p)
  OBVIOUS
<1>6. QED
  <2> HIDE DEF k, d
  <2>1. QED
    BY <1>1, <1>2, <1>3, <1>4, <1>5 DEF Words

\* The product of an unsigned parameter's step is never negative
LEMMA UnsignedAmount ==
  ASSUME NEW p \in Params, p \notin Signed, NEW size \in Nat, NEW n \in Nat
  PROVE  Amount(p, size, n) \in Nat
<1>1. size * n \in Int
  OBVIOUS
<1>2. WordMin(p) = 0
  BY DEF WordMin
<1>3. Amount(p, size, n) \in Words(p)
  BY <1>1, WordIsWord DEF Amount
<1>4. QED
  BY <1>2, <1>3, Limits DEF Words

LEMMA AmountIsWord ==
  ASSUME NEW p \in Params, NEW size \in Nat, NEW n \in Nat
  PROVE  Amount(p, size, n) \in Words(p) /\ Amount(p, size, n) \in Int
<1>1. size * n \in Int
  OBVIOUS
<1>2. QED
  BY <1>1, WordIsWord, Limits DEF Amount, Words

\* The room of a value within the limits is a difference of two words, which
\* does not wrap
LEMMA RoomWithin ==
  ASSUME NEW p \in Params, NEW v \in Lo[p] .. Hi[p]
  PROVE  Room(p, v - Lo[p]) = v - Lo[p] /\ Room(p, Hi[p] - v) = Hi[p] - v
<1> DEFINE k == 2^Width[p]
<1>1. k \in Nat /\ k > 0
  BY Limits
<1>2. v - Lo[p] \in 0 .. k - 1 /\ Hi[p] - v \in 0 .. k - 1
  BY Limits DEF Words
<1>3. (v - Lo[p]) % k = v - Lo[p] /\ (Hi[p] - v) % k = Hi[p] - v
  <2> HIDE DEF k
  <2>1. v - Lo[p] \in Int /\ Hi[p] - v \in Int
    BY <1>2
  <2>2. QED
    BY <1>1, <1>2, <2>1, Remainder
<1>4. QED
  BY <1>3 DEF Room

\* A step stores a word, whatever the value and the amount are
LEMMA StepIsWord ==
  ASSUME NEW p \in Params, NEW v \in Words(p), NEW a \in Int
  PROVE  Lowered(p, v, a) \in Words(p) /\ Raised(p, v, a) \in Words(p)
<1>1. v \in Int
  BY Limits DEF Words
<1>2. v - a \in Int /\ v + a \in Int
  BY <1>1
<1>3. QED
  BY <1>2, Limits, WordIsWord DEF Lowered, Raised

\* From a value within the limits it ends within them if the amount is not negative
LEMMA StepInLimits ==
  ASSUME NEW p \in Params, NEW v \in Lo[p] .. Hi[p], NEW a \in Nat
  PROVE  /\ Lowered(p, v, a) \in Lo[p] .. Hi[p]
         /\ Raised(p, v, a) \in Lo[p] .. Hi[p]
<1>1. Lo[p] \in Int /\ Hi[p] \in Int /\ v \in Int /\ Lo[p] .. Hi[p] \subseteq Words(p)
  BY Limits
<1>2. Lo[p] \in Lo[p] .. Hi[p] /\ Hi[p] \in Lo[p] .. Hi[p]
  BY <1>1
<1>3. Room(p, v - Lo[p]) = v - Lo[p] /\ Room(p, Hi[p] - v) = Hi[p] - v
  BY RoomWithin
<1>4. Lowered(p, v, a) \in Lo[p] .. Hi[p]
  <2>1. CASE a > v - Lo[p]
    BY <1>2, <1>3, <2>1 DEF Lowered
  <2>2. CASE ~(a > v - Lo[p])
    <3>1. v - a \in Lo[p] .. Hi[p] /\ v - a \in Int
      BY <1>1, <2>2
    <3>2. Lowered(p, v, a) = v - a
      BY <1>1, <1>3, <2>2, <3>1, WordIsWord DEF Lowered
    <3>3. QED
      BY <3>1, <3>2
  <2>3. QED
    BY <2>1, <2>2
<1>5. Raised(p, v, a) \in Lo[p] .. Hi[p]
  <2>1. CASE a > Hi[p] - v
    BY <1>2, <1>3, <2>1 DEF Raised
  <2>2. CASE ~(a > Hi[p] - v)
    <3>1. v + a \in Lo[p] .. Hi[p] /\ v + a \in Int
      BY <1>1, <2>2
    <3>2. Raised(p, v, a) = v + a
      BY <1>1, <1>3, <2>2, <3>1, WordIsWord DEF Raised
    <3>3. QED
      BY <3>1, <3>2
  <2>3. QED
    BY <2>1, <2>2
<1>6. QED
  BY <1>4, <1>5

------------------------------------------------------------------------------
(* Parameters within their limits                                          *)

\* What a parameter may hold: a word of its type, and one within its limits if the
\* parameter is one of those that the limits still hold for
Fits(p, v, bounded) == v \in Words(p) /\ (p \in bounded => v \in Lo[p] .. Hi[p])

\* InRange with the words of the types and the places of the window task that it
\* depends on
RangeInv ==
  /\ DOMAIN value = Params
  /\ \A p \in Params : Fits(p, value[p], Bounded)
  /\ m \in Items /\ history \in Seq(Items)
  /\ pc \in Places /\ after \in Passes
  /\ pc \in {"store", "editor"} => prm[m] \in Params /\ Fits(prm[m], result, Bounded)
  /\ pc = "editor" => editor[m]
  /\ narrowed \subseteq Signed

\* Fewer parameters for which the limits hold
LEMMA StillFits ==
  ASSUME NEW p, NEW v, NEW b, NEW c, c \subseteq b, Fits(p, v, b)
  PROVE  Fits(p, v, c)
BY DEF Fits

\* The value that stepsize computes from the one that it read
LEMMA SteppedFits ==
  ASSUME RangeInv, NEW p \in Params, NEW a \in Int, NEW down
  PROVE  /\ Stepped(p, a, down) \in Words(p)
         /\ p \in Bounded /\ a >= 0 => Stepped(p, a, down) \in Lo[p] .. Hi[p]
<1>1. value[p] \in Words(p) /\ (p \in Bounded => value[p] \in Lo[p] .. Hi[p])
  BY DEF RangeInv, Fits
<1>2. Stepped(p, a, down) \in Words(p)
  BY <1>1, StepIsWord DEF Stepped
<1>3. ASSUME p \in Bounded, a >= 0
      PROVE  Stepped(p, a, down) \in Lo[p] .. Hi[p]
  <2>1. a \in Nat
    BY <1>3
  <2>2. QED
    BY <1>1, <1>3, <2>1, StepInLimits DEF Stepped
<1>4. QED
  BY <1>2, <1>3

\* Storing a value that fits keeps the others
LEMMA StoreKeeps ==
  ASSUME RangeInv, NEW p \in Params, NEW v, Fits(p, v, Bounded),
         value' = [value EXCEPT ![p] = v]
  PROVE  /\ DOMAIN value' = Params
         /\ \A q \in Params : Fits(q, value'[q], Bounded)
BY DEF RangeInv

LEMMA RangeBegins == Init => RangeInv
<1> SUFFICES ASSUME Init PROVE RangeInv
  OBVIOUS
<1>1. DOMAIN value = Params /\ \A p \in Params : Fits(p, value[p], Bounded)
  BY Limits DEF Init, ServerInit, Fits
<1>2. m \in Items /\ history \in Seq(Items)
  BY MenuAssumption DEF Init
<1>3. QED
  BY <1>1, <1>2 DEF Init, RangeInv, Places, Passes

\* Where the selected item changes, or nothing but the place does
LEMMA Moves ==
  ASSUME RangeInv, m' \in Items, history' \in Seq(Items),
         value' = value, narrowed' = narrowed,
         pc' \in Places \ {"store", "editor"}, after' \in Passes
  PROVE  RangeInv'
BY DEF RangeInv, Bounded

LEMMA LoadKeeps ==
  ASSUME RangeInv, NEW v, NEW place \in Passes, Load(v, place),
         Bounded' \subseteq Bounded, narrowed' \subseteq Signed,
         prm[m] \in Params => Fits(prm[m], v, Bounded')
  PROVE  RangeInv'
<1>1. prm[m] \in Params
  BY MenuAssumption DEF RangeInv, Load
<1>2. \A p \in Params : Fits(p, value[p], Bounded')
  BY StillFits DEF RangeInv
<1>3. /\ value' = value /\ m' = m /\ history' = history
      /\ result' = v /\ pc' = "store" /\ after' = place
  BY DEF Load
<1>4. QED
  BY <1>1, <1>2, <1>3 DEF RangeInv, Places

\* A step loads a value within the limits, or its parameter is narrowed
LEMMA StepsKeep ==
  ASSUME RangeInv, NEW size \in [Params -> Nat], NEW n \in Int, NEW place \in Passes,
         Steps(size, n, place)
  PROVE  RangeInv'
<1> DEFINE q == prm[m]
           count == IF n < 0 THEN -n ELSE n
           amount == Amount(q, size[q], count)
<1>1. /\ Load(Stepped(q, amount, n < 0), place)
      /\ narrowed' = IF amount < 0 THEN narrowed \cup {q} ELSE narrowed
  BY DEF Steps
<1>2. q \in Params /\ size[q] \in Nat /\ count \in Nat
  BY <1>1, MenuAssumption DEF Load, RangeInv
<1>3. amount \in Int
  BY <1>2, AmountIsWord
<1>4. amount < 0 => q \in Signed
  <2>1. q \notin Signed => amount \in Nat
    BY <1>2, UnsignedAmount
  <2> HIDE DEF amount, q
  <2>2. QED
    BY <2>1
<1>5. Bounded' \subseteq Bounded /\ narrowed' \subseteq Signed
  BY <1>1, <1>4 DEF Bounded, RangeInv
<1>6. q \in Bounded' => amount >= 0
  <2> HIDE DEF amount, q
  <2>1. QED
    BY <1>1, <1>3 DEF Bounded
<1>7. Fits(q, Stepped(q, amount, n < 0), Bounded')
  <2> HIDE DEF amount, q
  <2>1. QED
    BY <1>2, <1>3, <1>5, <1>6, SteppedFits DEF Fits
<1>8. QED
  BY <1>1, <1>5, <1>7, LoadKeeps

\* What a preparation stores fits, or its parameter is one of Internal
LEMMA StoredKeeps ==
  ASSUME RangeInv, NEW i \in Points, NEW f \in Stores(i), Stored(f)
  PROVE  /\ DOMAIN value' = Params
         /\ \A q \in Params : Fits(q, value'[q], Bounded)
<1>1. DOMAIN value' = Params
  BY DEF Stored
<1>2. ASSUME NEW q \in Params
      PROVE  Fits(q, value'[q], Bounded)
  <2>1. CASE q \notin DOMAIN f
    BY <1>2, <2>1 DEF Stored, RangeInv
  <2>2. CASE q \in DOMAIN f
    <3>1. value'[q] = f[q] /\ f[q] \in Words(q)
      BY <1>2, <2>2, MenuAssumption DEF Stored
    <3>2. q \in Bounded => InLimits(q, f[q])
      BY <1>2, <2>2 DEF Bounded, Internal
    <3>3. f[q] \in Int
      BY <3>1, Limits DEF Words
    <3>4. QED
      BY <3>1, <3>2, <3>3, Limits DEF Fits, InLimits
  <2>3. QED
    BY <2>1, <2>2
<1>3. QED
  BY <1>1, <1>2

LEMMA TellPlace ==
  ASSUME RangeInv, NEW failed, NEW place \in Passes, Tell(failed, place)
  PROVE  /\ pc' \in Places \ {"store", "editor"}
         /\ after' \in Passes
BY DEF Tell, GoOn, RangeInv, Places, Passes

\* The passes of the menu's loop and its keys
LEMMA WindowKeepsRange ==
  ASSUME RangeInv, Window
  PROVE  RangeInv'
<1>1. ASSUME NoKey \/ NoTurn \/ Changes \/ Period \/ LeaveKey PROVE RangeInv'
  <2>1. value' = value /\ narrowed' = narrowed /\ m' \in Items /\ history' \in Seq(Items)
    BY <1>1 DEF NoKey, NoTurn, Changes, Period, LeaveKey, RangeInv, restVars
  <2>2. pc' \in Places \ {"store", "editor"} /\ after' \in Passes
    <3>1. "keys" \in Passes /\ "period" \in Passes
      BY DEF Passes
    <3>2. CASE Changes \/ Period
      BY <3>1, <3>2, TellPlace DEF Changes, Period
    <3>3. CASE NoKey \/ NoTurn \/ LeaveKey
      BY <3>3 DEF NoKey, NoTurn, LeaveKey, GoOn, RangeInv, Places, Passes
    <3>4. QED
      BY <1>1, <3>2, <3>3
  <2>3. QED
    BY <2>1, <2>2, Moves
<1>2. ASSUME Dismiss \/ Open PROVE RangeInv'
  <2>1. /\ value' = value /\ narrowed' = narrowed /\ m' \in Items /\ history' \in Seq(Items)
        /\ pc' \in Places \ {"store", "editor"} /\ after' \in Passes
    <3>1. CASE Dismiss
      BY <3>1 DEF Dismiss, Resume, RangeInv, Places, Passes, restVars
    <3>2. CASE Open
      <4>1. FirstItem \in Items /\ <<>> \in Seq(Items)
        BY MenuAssumption
      <4>2. QED
        BY <3>2, <4>1 DEF Open, RangeInv, Places, Passes, restVars
    <3>3. QED
      BY <1>2, <3>1, <3>2
  <2>2. QED
    BY <2>1, Moves
<1>3. ASSUME Store PROVE RangeInv'
  <2>1. prm[m] \in Params /\ Fits(prm[m], result, Bounded)
    BY <1>3 DEF Store, RangeInv
  <2>2. DOMAIN value' = Params /\ \A q \in Params : Fits(q, value'[q], Bounded)
    BY <1>3, <2>1, StoreKeeps DEF Store
  <2>3. /\ m' = m /\ history' = history /\ after' = "keys" /\ narrowed' = narrowed
        /\ pc' \in Passes
    BY <1>3 DEF Store, Resume, RangeInv, restVars
  <2>4. QED
    BY <2>2, <2>3 DEF RangeInv, Bounded, Places, Passes
<1>4. ASSUME UpKey \/ DownKey PROVE RangeInv'
  <2>1. bigstep \in [Params -> Nat] /\ "turned" \in Passes /\ 1 \in Int /\ -1 \in Int
    BY MenuAssumption DEF Passes
  <2>2. QED
    BY <1>4, <2>1, StepsKeep DEF UpKey, DownKey
<1>5. ASSUME ZeroKey PROVE RangeInv'
  <2>1. Load(Def[prm[m]], "turned") /\ narrowed' = narrowed /\ "turned" \in Passes
    BY <1>5 DEF ZeroKey, Passes
  <2>2. Bounded' = Bounded /\ narrowed' \subseteq Signed
    BY <2>1 DEF Bounded, RangeInv
  <2>3. prm[m] \in Params => Fits(prm[m], Def[prm[m]], Bounded')
    BY Limits DEF Fits
  <2>4. QED
    BY <2>1, <2>2, <2>3, LoadKeeps
<1>6. ASSUME Turn PROVE RangeInv'
  <2>1. PICK n \in Turns : Steps(step, n, "changes")
    BY <1>6 DEF Turn
  <2>2. step \in [Params -> Nat] /\ n \in Int /\ "changes" \in Passes
    BY MenuAssumption DEF Passes
  <2>3. QED
    BY <2>1, <2>2, StepsKeep
<1>7. ASSUME PreviousKey \/ NextKey PROVE RangeInv'
  <2>1. /\ value' = value /\ narrowed' = narrowed /\ m' \in Items /\ history' = history
        /\ pc' = "encoder" /\ after' = after
    BY <1>7, MenuAssumption DEF PreviousKey, NextKey, Select, GoOn, RangeInv, Link, restVars
  <2>2. QED
    BY <2>1, Moves DEF RangeInv, Places, Passes
<1>8. ASSUME ParentKey PROVE RangeInv'
  <2>1. m' \in Items /\ history' \in Seq(Items)
    BY <1>8 DEF ParentKey, Last, Popped, RangeInv
  <2>2. value' = value /\ narrowed' = narrowed
    BY <1>8 DEF ParentKey, Exit, CalibrExit, restVars
  <2>3. pc' \in Places \ {"store", "editor"} /\ after' \in Passes
    <3>1. "encoder" \in Passes
      BY DEF Passes
    <3>2. GoOn("encoder") \/ \E refused \in BOOLEAN : Tell(refused, "encoder")
      BY <1>8 DEF ParentKey, Exit
    <3>3. QED
      BY <3>1, <3>2, TellPlace DEF GoOn, RangeInv, Places, Passes
  <2>4. QED
    BY <2>1, <2>2, <2>3, Moves
<1>9. ASSUME ChildKey PROVE RangeInv'
  <2>a. Enter \/ UNCHANGED <<m, history>>
    BY <1>9 DEF ChildKey
  <2>b. child[m] \in Items
    BY <1>9, MenuAssumption DEF ChildKey, RangeInv, Link
  <2>1. m' \in Items /\ history' \in Seq(Items)
    BY <2>a, <2>b DEF Enter, RangeInv
  <2>2. pc' \in Places \ {"store", "editor"} /\ after' \in Passes
    <3>1. "encoder" \in Passes
      BY DEF Passes
    <3>2. GoOn("encoder") \/ Tell(TRUE, "encoder")
      BY <1>9 DEF ChildKey, Enter
    <3>3. QED
      BY <3>1, <3>2, TellPlace DEF GoOn, RangeInv, Places, Passes
  <2>3. /\ narrowed' = narrowed
        /\ value' = value \/ \E i \in Points : \E f \in Stores(i) : Stored(f)
    BY <1>9 DEF ChildKey, Prepare, Stores, restVars
  <2>4. DOMAIN value' = Params /\ \A q \in Params : Fits(q, value'[q], Bounded)
    BY <2>3, StoredKeeps DEF RangeInv
  <2>5. QED
    BY <2>1, <2>2, <2>3, <2>4 DEF RangeInv, Bounded
<1>10. ASSUME EditorKey PROVE RangeInv'
  <2>1. prm[m] \in Params
    BY <1>10, MenuAssumption DEF EditorKey, RangeInv
  <2>2. /\ history' \in Seq(Items) /\ m' = m /\ value' = value /\ result' = value[prm[m]]
        /\ pc' = "editor" /\ after' = after /\ editor[m] /\ narrowed' = narrowed
    BY <1>10 DEF EditorKey, GoOn, RangeInv, restVars
  <2>3. QED
    BY <2>1, <2>2 DEF RangeInv, Bounded, Places
<1>11. ASSUME EditorTurn PROVE RangeInv'
  <2>1. prm[m] \in Params /\ Lo[prm[m]] = WordMin(prm[m]) /\ Hi[prm[m]] = WordMax(prm[m])
    BY <1>11, MenuAssumption DEF EditorTurn, RangeInv
  <2>2. Fits(prm[m], result', Bounded)
    BY <1>11, <2>1 DEF EditorTurn, Words, Fits
  <2>3. UNCHANGED <<value, pc, m, history, after, narrowed>>
    BY <1>11 DEF EditorTurn, restVars
  <2>4. QED
    BY <2>1, <2>2, <2>3 DEF RangeInv, Bounded
<1>12. ASSUME EditorEnds PROVE RangeInv'
  <2>1. prm[m] \in Params /\ Fits(prm[m], result, Bounded)
    BY <1>12 DEF EditorEnds, RangeInv
  <2>2. DOMAIN value' = Params /\ \A q \in Params : Fits(q, value'[q], Bounded)
    BY <1>12, <2>1, StoreKeeps DEF EditorEnds
  <2>3. /\ m' = m /\ history' \in Seq(Items) /\ after' = after /\ pc' = "encoder"
        /\ narrowed' = narrowed
    BY <1>12 DEF EditorEnds, GoOn, Popped, RangeInv, restVars
  <2>4. QED
    BY <2>2, <2>3 DEF RangeInv, Bounded, Places, Passes
<1>13. QED
  BY <1>1, <1>2, <1>3, <1>4, <1>5, <1>6, <1>7, <1>8, <1>9, <1>10, <1>11, <1>12
     DEF Window, Pass, Keys

\* The cursor of a write points at a parameter
LEMMA AtCursor ==
  ASSUME WriteNext
  PROVE  List[cursor] \in Params
<1>1. List \in Seq(Params)
  BY ParamAssumption
<1>2. cursor \in DOMAIN List
  BY DEF WriteNext
<1>3. QED
  BY <1>1, <1>2

\* The server stores what deserialize accepts
LEMMA ServerKeepsRange ==
  ASSUME RangeInv, Server \/ Client, UNCHANGED menuVars, narrowed' = narrowed
  PROVE  RangeInv'
<1>1. CASE WriteNext
  <2>1. List[cursor] \in Params
    BY <1>1, AtCursor
  <2>2. PICK v \in Words(List[cursor]) :
           InLimits(List[cursor], v) /\ value' = [value EXCEPT ![List[cursor]] = v]
    BY <1>1 DEF WriteNext
  <2>3. v \in Int
    BY <2>1, Limits DEF Words
  <2>4. Fits(List[cursor], v, Bounded)
    BY <2>1, <2>2, <2>3, Limits DEF InLimits, Fits
  <2>5. DOMAIN value' = Params /\ \A q \in Params : Fits(q, value'[q], Bounded)
    BY <2>1, <2>2, <2>4, StoreKeeps
  <2>6. QED
    BY <2>5 DEF RangeInv, Bounded, menuVars
<1>2. CASE ~WriteNext
  <2>1. value' = value
    <3>1. CASE Poll \/ ReceiveWrite \/ ReceiveRaw
      BY <3>1 DEF Poll, ReceiveWrite, ReceiveRaw
    <3>2. CASE ReceiveError \/ WriteEnds \/ Reply
      BY <3>2 DEF ReceiveError, WriteEnds, Reply
    <3>3. CASE Client
      BY <3>3 DEF Client, ClientConnects, ClientLeaves
    <3>4. QED
      BY <1>2, <3>1, <3>2, <3>3 DEF Server
  <2>2. QED
    BY <2>1 DEF RangeInv, Bounded, menuVars
<1>3. QED
  BY <1>1, <1>2

LEMMA RangeCorrect == Spec => []RangeInv
<1>1. RangeInv /\ [Next]_vars => RangeInv'
  <2> SUFFICES ASSUME RangeInv, [Next]_vars PROVE RangeInv'
    OBVIOUS
  <2>1. CASE Window
    BY <2>1, WindowKeepsRange
  <2>2. CASE (Server \/ Client) /\ UNCHANGED <<menuVars, restVars>>
    BY <2>2, ServerKeepsRange DEF restVars
  <2>3. CASE Connection \/ LateEnds
    BY <2>3 DEF Connection, LateEnds, RangeInv, Bounded, menuVars
  <2>4. CASE UNCHANGED vars
    BY <2>4 DEF vars, RangeInv, Bounded, menuVars, restVars
  <2>5. QED
    BY <2>1, <2>2, <2>3, <2>4 DEF Next
<1>2. QED
  BY RangeBegins, <1>1, PTL DEF Spec

\* The keys, the encoder and the server keep a parameter within its limits, signed
\* or unsigned, in any order of their reads and stores.  A signed one may leave them
\* after a step whose product was narrowed to a negative amount, and one that a
\* preparation puts outside of them is not kept.
THEOREM RangesKept == Spec => []InRange
<1>1. RangeInv => InRange
  BY DEF RangeInv, Fits, InRange, Bounded
<1>2. QED
  BY <1>1, RangeCorrect, PTL

------------------------------------------------------------------------------
(* Requests                                                                *)

\* RequestKept with the registers that are left, and nothing left over from the
\* request before
RequestInv ==
  /\ asked \in 0 .. 123 /\ todo \in Nat /\ stored \in Nat
  /\ stored + todo = asked
  /\ answer = "ENOERR" => todo = 0
  /\ stage # "write" => stored = 0 /\ answer = "none"

\* The subtraction does not wrap, because a parameter of two registers is not
\* stored with one left
LEMMA RegistersLeft ==
  ASSUME NEW p \in Params, NEW n \in 1 .. 123, Regs[p] = 2 => n >= 2
  PROVE  UShort(n - Regs[p]) = n - Regs[p] /\ n - Regs[p] \in Nat
<1>1. Regs[p] \in {1, 2}
  BY ParamAssumption
<1>2. n - Regs[p] \in 0 .. 123
  BY <1>1
<1>3. \A x \in 0 .. 123 : x % 65536 = x
  OBVIOUS
<1>4. QED
  <2> DEFINE d == n - Regs[p]
  <2>1. d \in 0 .. 123
    BY <1>2
  <2> HIDE DEF d
  <2>2. d % 65536 = d /\ d \in Nat
    BY <2>1, <1>3
  <2>3. QED
    BY <2>2 DEF d, UShort

LEMMA ServerKeepsRequest ==
  ASSUME RequestInv, Server
  PROVE  RequestInv'
<1>1. CASE WriteNext
  <2>1. List[cursor] \in Params /\ Regs[List[cursor]] \in {1, 2}
    BY <1>1, AtCursor, ParamAssumption
  <2>2. todo \in 1 .. 123 /\ (Regs[List[cursor]] = 2 => todo >= 2)
    BY <1>1 DEF WriteNext, TooFew, RequestInv
  <2>3. todo' = UShort(todo - Regs[List[cursor]])
    BY <1>1 DEF WriteNext
  <2>4. todo' = todo - Regs[List[cursor]] /\ todo' \in Nat
    BY <2>1, <2>2, <2>3, RegistersLeft
  <2>5. /\ stored' = stored + Regs[List[cursor]] /\ asked' = asked
        /\ answer' = "none" /\ stage' = "write"
    BY <1>1 DEF WriteNext
  <2>6. QED
    BY <2>1, <2>4, <2>5 DEF RequestInv
<1>2. CASE WriteEnds
  <2>1. /\ stored' = stored /\ todo' = todo /\ asked' = asked /\ stage' = "write"
        /\ answer' = "ENOERR" => todo = 0
    BY <1>2 DEF WriteEnds
  <2>2. QED
    BY <2>1 DEF RequestInv
<1>3. CASE Reply
  BY <1>3 DEF Reply, NoRequest, RequestInv
<1>4. CASE ReceiveWrite
  <2>1. PICK r \in Requests : todo' = r.regs /\ asked' = r.regs
    BY <1>4 DEF ReceiveWrite
  <2>2. r.regs \in 1 .. 123
    BY ParamAssumption
  <2>3. stored' = stored /\ answer' = answer /\ stage = "receive" /\ stage' = "write"
    BY <1>4 DEF ReceiveWrite
  <2>4. QED
    BY <2>1, <2>2, <2>3 DEF RequestInv
<1>5. CASE Poll \/ ReceiveRaw \/ ReceiveError
  <2>1. /\ asked' = asked /\ todo' = todo /\ stored' = stored /\ answer' = answer
        /\ stage # "write"
    BY <1>5 DEF Poll, ReceiveRaw, ReceiveError, request
  <2>2. QED
    BY <2>1 DEF RequestInv
<1>6. QED
  BY <1>1, <1>2, <1>3, <1>4, <1>5 DEF Server

\* The window leaves the server alone.
LEMMA WindowServer ==
  ASSUME Window
  PROVE  UNCHANGED serverVars
BY DEF Window, Pass, Keys, NoKey, NoTurn, Store, Changes, Period, UpKey, DownKey, ZeroKey,
       Steps, Load, PreviousKey, NextKey, Select, ParentKey, LeaveKey, ChildKey, EditorKey,
       EditorEnds, Dismiss, Open, Turn, EditorTurn

LEMMA RequestCorrect == Spec => []RequestInv
<1>1. Init => RequestInv
  BY DEF Init, ServerInit, RequestInv
<1>2. RequestInv /\ [Next]_vars => RequestInv'
  <2> SUFFICES ASSUME RequestInv, [Next]_vars PROVE RequestInv'
    OBVIOUS
  <2>1. CASE Server
    BY <2>1, ServerKeepsRequest
  <2>2. CASE UNCHANGED <<stage, cursor, todo, stored, asked, answer>>
    BY <2>2 DEF RequestInv
  <2>3. CASE Window
    <3>1. UNCHANGED serverVars
      BY <2>3, WindowServer
    <3>2. QED
      BY <2>2, <3>1 DEF serverVars
  <2>4. CASE Client
    BY <2>2, <2>4 DEF Client, ClientConnects, ClientLeaves, request
  <2>5. CASE Connection \/ LateEnds \/ UNCHANGED vars
    BY <2>2, <2>5 DEF Connection, LateEnds, vars, serverVars
  <2>6. QED
    BY <2>1, <2>3, <2>4, <2>5 DEF Next
<1>3. QED
  BY <1>1, <1>2, PTL DEF Spec

\* A write reports success only when every register of the request is stored,
\* and never stores more than were asked for.
THEOREM RequestsKept == Spec => []RequestKept
<1>1. RequestInv => RequestKept
  BY DEF RequestInv, RequestKept
<1>2. QED
  BY <1>1, RequestCorrect, PTL

------------------------------------------------------------------------------
(* The output switched on for a measurement                                *)

Owned(h) == \E k \in DOMAIN h : h[k] \in Prepared

\* OutputOwned, also of a switch-on that is still repeated, with the levels that
\* an editor and the base window stand for
OwnedInv ==
  /\ m \in Items /\ history \in Seq(Items)
  /\ pc = "left" => history = <<>>
  /\ pc = "editor" => history # <<>> /\ Last = m /\ editor[m]
  /\ after \in Passes
  /\ output \/ late => excused \/ Owned(history)

\* A level that is entered hides none of those around it
LEMMA OwnedAppend ==
  ASSUME NEW h \in Seq(Items), NEW i \in Items
  PROVE  /\ Append(h, i) \in Seq(Items) /\ Append(h, i) # <<>>
         /\ Append(h, i)[Len(Append(h, i))] = i
         /\ Owned(h) \/ i \in Prepared => Owned(Append(h, i))
<1>1. /\ Append(h, i) \in Seq(Items) /\ Append(h, i) # <<>>
      /\ Len(Append(h, i)) = Len(h) + 1 /\ Append(h, i)[Len(h) + 1] = i
      /\ \A k \in DOMAIN h : k \in DOMAIN Append(h, i) /\ Append(h, i)[k] = h[k]
      /\ Len(h) + 1 \in DOMAIN Append(h, i)
  OBVIOUS
<1>2. QED
  BY <1>1 DEF Owned

\* Leaving a level that is not prepared leaves the others
LEMMA OwnedPopped ==
  ASSUME history \in Seq(Items), history # <<>>
  PROVE  /\ Last \in Items /\ Popped \in Seq(Items)
         /\ Owned(history) /\ Last \notin Prepared => Owned(Popped)
<1>1. /\ Last \in Items /\ Popped \in Seq(Items)
      /\ \A k \in DOMAIN history : k # Len(history) =>
            k \in DOMAIN Popped /\ Popped[k] = history[k]
  BY DEF Last, Popped
<1>2. QED
  BY <1>1 DEF Owned, Last

\* What does not touch the regulator, and changes the history at most by entering
LEMMA OwnedMoves ==
  ASSUME OwnedInv, m' \in Items, UNCHANGED <<output, late, excused>>,
         history' \in Seq(Items), Owned(history) => Owned(history'),
         pc' = "left" => history' = <<>>, pc' # "editor",
         after' \in Passes
  PROVE  OwnedInv'
BY DEF OwnedInv, Owned

LEMMA WindowKeepsOwned ==
  ASSUME OwnedInv, Window
  PROVE  OwnedInv'
<1>1. ASSUME NoKey \/ NoTurn \/ Store \/ Changes \/ Period \/ UpKey \/ DownKey \/ ZeroKey \/ Turn
             \/ LeaveKey \/ Dismiss
      PROVE  OwnedInv'
  <2>1. UNCHANGED <<m, history, output, late, excused>>
    BY <1>1 DEF NoKey, NoTurn, Store, Changes, Period, UpKey, DownKey, ZeroKey, Turn, LeaveKey,
                Dismiss, Steps, Load, restVars, regVars
  <2>2. /\ pc' # "editor" /\ after' \in Passes
        /\ pc' = "left" => history = <<>>
    BY <1>1 DEF NoKey, NoTurn, Store, Changes, Period, UpKey, DownKey, ZeroKey, Turn, LeaveKey,
                Dismiss, Steps, Load, Tell, GoOn, Resume, OwnedInv, Passes
  <2>3. QED
    BY <2>1, <2>2, OwnedMoves DEF OwnedInv
<1>2. ASSUME Open PROVE OwnedInv'
  <2>1. FirstItem \in Items /\ <<>> \in Seq(Items)
    BY MenuAssumption
  <2>2. history = <<>> /\ history' = <<>> /\ pc' = "keys" /\ after' = after
    BY <1>2 DEF Open, OwnedInv
  <2>3. m' \in Items /\ UNCHANGED <<output, late, excused>>
    BY <1>2, <2>1 DEF Open, restVars, regVars
  <2>4. QED
    BY <2>1, <2>2, <2>3, OwnedMoves DEF OwnedInv
<1>3. ASSUME PreviousKey \/ NextKey PROVE OwnedInv'
  <2>1. /\ m' \in Items /\ UNCHANGED <<history, output, late, excused>>
        /\ pc' = "encoder" /\ after' = after
    BY <1>3, MenuAssumption
       DEF PreviousKey, NextKey, Select, GoOn, restVars, regVars, OwnedInv, Link
  <2>2. QED
    BY <2>1, OwnedMoves DEF OwnedInv
<1>4. ASSUME ParentKey PROVE OwnedInv'
  <2>1. /\ history # <<>> /\ m' = Last /\ history' = Popped /\ Exit(Last)
    BY <1>4 DEF ParentKey, Left
  <2>2. /\ m' \in Items /\ history' \in Seq(Items)
        /\ Owned(history) /\ Last \notin Prepared => Owned(history')
    BY <2>1, OwnedPopped DEF OwnedInv
  <2>3. pc' \notin {"left", "editor"} /\ after' \in Passes
    BY <2>1 DEF Exit, Tell, GoOn, OwnedInv, Passes
  <2>4. CASE Last \in Prepared
    <3>1. excused' = (output' \/ late')
      BY <2>1, <2>4 DEF Exit, CalibrExit
    <3>2. QED
      BY <2>2, <2>3, <3>1 DEF OwnedInv
  <2>5. CASE Last \notin Prepared
    <3>1. UNCHANGED <<output, late, excused>>
      BY <2>1, <2>5 DEF Exit, restVars, regVars
    <3>2. QED
      BY <2>2, <2>3, <2>5, <3>1, OwnedMoves
  <2>6. QED
    BY <2>4, <2>5
<1>5. ASSUME ChildKey PROVE OwnedInv'
  <2>1. m \in Items /\ child[m] \in Items /\ history \in Seq(Items)
    BY <1>5, MenuAssumption DEF ChildKey, OwnedInv, Link
  <2>2. pc' \notin {"left", "editor"} /\ after' \in Passes
    BY <1>5 DEF ChildKey, Enter, Tell, GoOn, OwnedInv, Passes
  <2>3. CASE m \notin Prepared
    <3>1. Enter /\ UNCHANGED <<output, late, excused>>
      BY <1>5, <2>3 DEF ChildKey, restVars, regVars
    <3>2. QED
      BY <2>1, <2>2, <3>1, OwnedAppend, OwnedMoves DEF Enter
  <2>4. CASE m \in Prepared /\ Enter
    <3>1. m' \in Items /\ history' \in Seq(Items) /\ Owned(history')
      BY <2>1, <2>4, OwnedAppend DEF Enter
    <3>2. QED
      BY <2>2, <3>1 DEF OwnedInv
  <2>5. CASE m \in Prepared /\ ~Enter
    <3>1. Prepare(m, FALSE) /\ UNCHANGED <<m, history>>
      BY <1>5, <2>5 DEF ChildKey
    <3>2. \/ UNCHANGED <<output, late, excused>>
          \/ excused' = (excused \/ output' \/ late')
      BY <3>1 DEF Prepare
    <3>3. Owned(history) <=> Owned(history')
      BY <3>1 DEF Owned
    <3>4. output' \/ late' => excused' \/ Owned(history')
      BY <3>2, <3>3, Zenon DEF OwnedInv
    <3>5. QED
      BY <2>2, <3>1, <3>4 DEF OwnedInv
  <2>6. QED
    BY <2>3, <2>4, <2>5
<1>6. ASSUME EditorKey PROVE OwnedInv'
  <2>1. /\ history' = Append(history, m) /\ m' = m /\ pc' = "editor" /\ after' = after
        /\ editor[m] /\ UNCHANGED <<output, late, excused>>
    BY <1>6 DEF EditorKey, GoOn, restVars, regVars
  <2>2. /\ history' \in Seq(Items) /\ history' # <<>> /\ history'[Len(history')] = m
        /\ Owned(history) => Owned(history')
    BY <2>1, OwnedAppend DEF OwnedInv
  <2>3. Last' = m'
    BY <2>1, <2>2 DEF Last
  <2>4. QED
    BY <2>1, <2>2, <2>3 DEF OwnedInv
<1>7. ASSUME EditorTurn PROVE OwnedInv'
  <2>1. UNCHANGED <<m, history, pc, after, output, late, excused>>
    BY <1>7 DEF EditorTurn, restVars, regVars
  <2>2. QED
    BY <2>1 DEF OwnedInv, Owned, Last
<1>8. ASSUME EditorEnds PROVE OwnedInv'
  <2>1. /\ m' = m /\ history' = Popped /\ pc' = "encoder" /\ after' = after
        /\ UNCHANGED <<output, late, excused>>
    BY <1>8 DEF EditorEnds, GoOn, restVars, regVars
  <2>2. history \in Seq(Items) /\ history # <<>> /\ Last \notin Prepared
    BY <1>8, MenuAssumption DEF EditorEnds, OwnedInv
  <2>3. history' \in Seq(Items) /\ (Owned(history) => Owned(history'))
    BY <2>1, <2>2, OwnedPopped
  <2>4. QED
    BY <2>1, <2>3, OwnedMoves DEF OwnedInv
<1>9. QED
  BY <1>1, <1>2, <1>3, <1>4, <1>5, <1>6, <1>7, <1>8 DEF Window, Pass, Keys

LEMMA OwnedCorrect == Spec => []OwnedInv
<1>1. Init => OwnedInv
  <2>1. FirstItem \in Items /\ <<>> \in Seq(Items)
    BY MenuAssumption
  <2>2. QED
    BY <2>1 DEF Init, OwnedInv, Passes
<1>2. OwnedInv /\ [Next]_vars => OwnedInv'
  <2> SUFFICES ASSUME OwnedInv, [Next]_vars PROVE OwnedInv'
    OBVIOUS
  <2>1. CASE Window
    BY <2>1, WindowKeepsOwned
  <2>2. CASE UNCHANGED <<menuVars, restVars>>
    BY <2>2 DEF menuVars, restVars, regVars, OwnedInv, Owned, Last
  <2>3. CASE Connection
    BY <2>3 DEF Connection, menuVars, OwnedInv, Owned, Last
  <2>4. CASE LateEnds
    <3>1. /\ UNCHANGED <<m, history, pc, after>> /\ late /\ ~late'
          /\ output' \in {output, TRUE} /\ excused' = (excused /\ output')
      BY <2>4 DEF LateEnds, menuVars
    <3>2. QED
      BY <3>1 DEF OwnedInv, Owned, Last
  <2>5. CASE UNCHANGED vars
    BY <2>2, <2>5 DEF vars
  <2>6. QED
    BY <2>1, <2>2, <2>3, <2>4, <2>5 DEF Next
<1>3. QED
  BY <1>1, <1>2, PTL DEF Spec

\* With every way that a preparation, a switch-off or a late switch-on can end,
\* the output is on only inside a level that switches it off, or after a failure.
THEOREM OutputIsOwned == Spec => []OutputOwned
<1>1. OwnedInv => OutputOwned
  BY DEF OwnedInv, Owned, OutputOwned
<1>2. QED
  BY <1>1, OwnedCorrect, PTL

------------------------------------------------------------------------------
(* The stack of levels and the types                                       *)

\* history has an entry for each level above the item selected, one more in an
\* editor, and each entry belongs to its own level.
DepthInv ==
  /\ m \in Items /\ history \in Seq(Items)
  /\ Len(history) = level[m] + (IF pc = "editor" THEN 1 ELSE 0)
  /\ \A k \in DOMAIN history : level[history[k]] = k - 1
  /\ pc = "editor" => editor[m]

LEMMA Levels ==
  ASSUME NEW i \in Items
  PROVE  /\ level[i] \in 0 .. HistorySize
         /\ \A n \in {next[i], previous[i]} : n # Null => n \in Items /\ level[n] = level[i]
         /\ child[i] # Null => child[i] \in Items /\ level[child[i]] = level[i] + 1
         /\ editor[i] => level[i] < HistorySize
BY MenuAssumption DEF TreeOfLevels, Link

\* What only moves within a level keeps the stack.
LEMMA SameLevel ==
  ASSUME DepthInv, m' \in Items, level[m'] = level[m], history' = history,
         pc # "editor", pc' # "editor"
  PROVE  DepthInv'
BY DEF DepthInv

\* The entry of the item selected, which is on the level after the last entry's.
LEMMA EntryForLevel ==
  ASSUME DepthInv, pc # "editor"
  PROVE  /\ Append(history, m) \in Seq(Items) /\ Len(Append(history, m)) = level[m] + 1
         /\ \A k \in DOMAIN Append(history, m) : level[Append(history, m)[k]] = k - 1
<1> DEFINE h == Append(history, m)
<1>1. /\ h \in Seq(Items) /\ Len(h) = Len(history) + 1
      /\ DOMAIN h = 1 .. Len(history) + 1 /\ h[Len(history) + 1] = m
      /\ \A k \in 1 .. Len(history) : h[k] = history[k]
  BY DEF DepthInv
<1>2. Len(history) = level[m] /\ Len(history) \in Nat /\ DOMAIN history = 1 .. Len(history)
  BY Levels DEF DepthInv
<1>3. ASSUME NEW k \in DOMAIN h
      PROVE  level[h[k]] = k - 1
  <2>1. CASE k = Len(history) + 1
    BY <1>1, <1>2, <2>1
  <2>2. CASE k # Len(history) + 1
    <3>1. k \in DOMAIN history /\ h[k] = history[k]
      BY <1>1, <1>2, <1>3, <2>2
    <3>2. QED
      BY <3>1 DEF DepthInv
  <2>3. QED
    BY <2>1, <2>2
<1>4. QED
  BY <1>1, <1>2, <1>3

LEMMA WindowKeepsDepth ==
  ASSUME DepthInv, Window, pc = "left" => history = <<>>,
         after \in Passes
  PROVE  DepthInv'
<1>1. ASSUME NoKey \/ NoTurn \/ Store \/ Changes \/ Period \/ UpKey \/ DownKey \/ ZeroKey \/ Turn
             \/ LeaveKey \/ Dismiss
      PROVE  DepthInv'
  <2>1. m' = m /\ history' = history /\ pc # "editor"
    BY <1>1 DEF NoKey, NoTurn, Store, Changes, Period, UpKey, DownKey, ZeroKey, Turn, LeaveKey,
                Dismiss, Steps, Load
  <2>2. pc' # "editor"
    BY <1>1 DEF NoKey, NoTurn, Store, Changes, Period, UpKey, DownKey, ZeroKey, Turn, LeaveKey,
                Dismiss, Steps, Load, Tell, GoOn, Resume, Passes
  <2>3. QED
    BY <2>1, <2>2, SameLevel DEF DepthInv
<1>2. ASSUME Open PROVE DepthInv'
  <2>1. FirstItem \in Items /\ level[FirstItem] = 0
    BY MenuAssumption DEF TreeOfLevels
  <2>2. m' = FirstItem /\ history' = <<>> /\ pc' = "keys"
    BY <1>2 DEF Open
  <2>3. QED
    BY <2>1, <2>2 DEF DepthInv
<1>3. ASSUME PreviousKey \/ NextKey PROVE DepthInv'
  <2>1. PICK i \in {next[m], previous[m]} :
          i # Null /\ m' = i /\ history' = history /\ pc = "keys" /\ pc' = "encoder"
    BY <1>3 DEF PreviousKey, NextKey, Select, GoOn
  <2>2. i \in Items /\ level[i] = level[m]
    BY <2>1, Levels DEF DepthInv
  <2>3. QED
    BY <2>1, <2>2, SameLevel
<1>4. ASSUME ParentKey PROVE DepthInv'
  <2>1. pc = "keys" /\ history # <<>> /\ m' = Last /\ history' = Popped /\ pc' # "editor"
    BY <1>4 DEF ParentKey, Exit, Tell, GoOn
  <2>2. /\ Len(history) \in DOMAIN history /\ Last = history[Len(history)] /\ Last \in Items
        /\ Popped \in Seq(Items) /\ Len(Popped) = Len(history) - 1
        /\ \A k \in DOMAIN Popped : k \in DOMAIN history /\ Popped[k] = history[k]
    BY <2>1 DEF Last, Popped, DepthInv
  <2>3. level[Last] = Len(history) - 1
    BY <2>2 DEF DepthInv
  <2>4. QED
    BY <2>1, <2>2, <2>3 DEF DepthInv
<1>5. ASSUME ChildKey PROVE DepthInv'
  <2>1. /\ pc = "keys" /\ pc' # "editor"
        /\ \/ history' = Append(history, m) /\ m' = child[m]
           \/ UNCHANGED <<m, history>>
    BY <1>5 DEF ChildKey, Enter, Tell, GoOn
  <2>2. child[m] \in Items /\ level[child[m]] = level[m] + 1
    BY <1>5, Levels DEF ChildKey, DepthInv
  <2>4. CASE history' = Append(history, m) /\ m' = child[m]
    BY <2>1, <2>2, <2>4, EntryForLevel DEF DepthInv
  <2>5. CASE UNCHANGED <<m, history>>
    BY <2>1, <2>5, SameLevel DEF DepthInv
  <2>6. QED
    BY <2>1, <2>4, <2>5
<1>6. ASSUME EditorKey PROVE DepthInv'
  <2>1. /\ pc = "keys" /\ pc' = "editor" /\ editor[m] /\ m' = m
        /\ history' = Append(history, m)
    BY <1>6 DEF EditorKey, GoOn
  <2>2. QED
    BY <2>1, EntryForLevel DEF DepthInv
<1>7. ASSUME EditorTurn PROVE DepthInv'
  BY <1>7 DEF EditorTurn, DepthInv
<1>8. ASSUME EditorEnds PROVE DepthInv'
  <2>1. pc = "editor" /\ m' = m /\ history' = Popped /\ pc' = "encoder"
    BY <1>8 DEF EditorEnds, GoOn
  <2>2. Len(history) = level[m] + 1 /\ level[m] \in 0 .. HistorySize /\ history # <<>>
    BY <2>1, Levels DEF DepthInv
  <2>3. /\ Popped \in Seq(Items) /\ Len(Popped) = Len(history) - 1
        /\ \A k \in DOMAIN Popped : k \in DOMAIN history /\ Popped[k] = history[k]
    BY <2>2 DEF Popped, DepthInv
  <2>4. QED
    BY <2>1, <2>2, <2>3 DEF DepthInv
<1>9. QED
  BY <1>1, <1>2, <1>3, <1>4, <1>5, <1>6, <1>7, <1>8 DEF Window, Pass, Keys

\* The stack, with the places that WindowKeepsDepth depends on.
StackInv ==
  /\ DepthInv
  /\ pc = "left" => history = <<>>
  /\ after \in Passes

LEMMA StackCorrect == Spec => []StackInv
<1>1. Init => StackInv
  <2>1. FirstItem \in Items /\ level[FirstItem] = 0 /\ <<>> \in Seq(Items)
    BY MenuAssumption DEF TreeOfLevels
  <2>2. QED
    BY <2>1 DEF Init, StackInv, DepthInv, Passes
<1>2. OwnedInv /\ OwnedInv' /\ StackInv /\ [Next]_vars => StackInv'
  <2> SUFFICES ASSUME OwnedInv, OwnedInv', StackInv, [Next]_vars PROVE StackInv'
    OBVIOUS
  <2>1. (pc = "left" => history = <<>>)' /\ after' \in Passes
    BY DEF OwnedInv
  <2>2. CASE Window
    BY <2>1, <2>2, WindowKeepsDepth DEF StackInv
  <2>3. CASE UNCHANGED menuVars
    BY <2>1, <2>3 DEF StackInv, DepthInv, menuVars
  <2>4. QED
    BY <2>2, <2>3 DEF Next, Connection, LateEnds, vars
<1>3. QED
  BY <1>1, <1>2, OwnedCorrect, PTL DEF Spec

\* The first parameter at an address is one of the list, or there is none.
LEMMA FirstAtRange ==
  ASSUME NEW a
  PROVE  FirstAt(a) \in 1 .. Len(List) + 1
<1> DEFINE hits == {i \in DOMAIN List : Address[List[i]] = a}
<1>1. Len(List) \in Nat /\ DOMAIN List = 1 .. Len(List)
  BY ParamAssumption
<1>2. CASE hits = {}
  BY <1>1, <1>2 DEF FirstAt
<1>3. CASE hits # {}
  <2>1. hits \subseteq Nat
    BY <1>1
  <2>2. PICK i \in hits : \A j \in hits : <<j, i>> \notin OpToRel(<, Nat)
    BY <1>3, <2>1, WFMin, NatLessThanWellFounded, Zenon
  <2>3. \A j \in hits : ~(j < i)
    BY <2>1, <2>2, Zenon DEF OpToRel
  <2>4. \A j \in hits : i <= j
    <3> HIDE DEF hits
    <3> SUFFICES ASSUME NEW j \in hits PROVE i <= j
      OBVIOUS
    <3>1. i \in Nat /\ j \in Nat /\ ~(j < i)
      BY <2>1, <2>2, <2>3
    <3>2. QED
      BY <3>1
  <2>5. FirstAt(a) \in hits
    BY <1>3, <2>4 DEF FirstAt
  <2>6. QED
    BY <1>1, <2>5
<1>4. QED
  BY <1>2, <1>3

LEMMA PartInSum ==
  ASSUME NEW n \in Nat, NEW k \in Nat, NEW sum, k + n = sum
  PROVE  n \in 0 .. sum
OBVIOUS

LEMMA ServerTypes ==
  ASSUME ServerTypeOK, RequestInv', Server \/ Client
  PROVE  ServerTypeOK'
<1>1. Len(List) \in Nat /\ DOMAIN List = 1 .. Len(List)
  BY ParamAssumption
<1>2. todo' \in 0 .. asked' /\ asked' \in 0 .. 123 /\ stored' \in Nat
  <2>1. asked' \in 0 .. 123 /\ todo' \in Nat /\ stored' \in Nat /\ stored' + todo' = asked'
    BY DEF RequestInv
  <2>2. QED
    BY <2>1, PartInSum
<1>3. cursor' \in 1 .. Len(List) + 1
  <2>1. CASE ReceiveWrite
    BY <2>1, FirstAtRange DEF ReceiveWrite
  <2>2. CASE WriteNext
    BY <1>1, <2>2 DEF WriteNext, ServerTypeOK
  <2>3. CASE Reply
    BY <1>1, <2>3 DEF Reply, NoRequest
  <2>4. CASE Poll \/ ReceiveRaw \/ ReceiveError \/ WriteEnds \/ Client
    BY <2>4 DEF Poll, ReceiveRaw, ReceiveError, WriteEnds, Client, ClientConnects, ClientLeaves,
                request, ServerTypeOK
  <2>5. QED
    BY <2>1, <2>2, <2>3, <2>4 DEF Server
<1>4. peer' \in {"none", "here", "closed", "gone"} /\ conn' \in BOOLEAN /\ remote' \in BOOLEAN
      /\ stage' \in Stages
  BY DEF Server, Client, Poll, ReceiveWrite, ReceiveRaw, ReceiveError, WriteNext, WriteEnds, Reply,
         ClientConnects, ClientLeaves, Released, ServerTypeOK, Stages
<1>5. answer' \in Answers
  BY DEF Server, Client, Poll, ReceiveWrite, ReceiveRaw, ReceiveError, WriteNext, WriteEnds, Reply,
         ClientConnects, ClientLeaves, NoRequest, request, ServerTypeOK, Answers
<1>6. QED
  BY <1>2, <1>3, <1>4, <1>5 DEF ServerTypeOK

\* What the window is about to store stays a number.
LEMMA WindowResult ==
  ASSUME Window, RangeInv', result \in Int
  PROVE  result' \in Int
<1>1. CASE pc' \in {"store", "editor"}
  <2>1. prm[m'] \in Params /\ result' \in Words(prm[m'])
    BY <1>1 DEF RangeInv, Fits
  <2>2. QED
    BY <2>1, Limits DEF Words
<1>2. CASE pc' \notin {"store", "editor"}
  <2>1. result' \in {result, 0}
    BY <1>2 DEF Window, Pass, Keys, NoKey, NoTurn, Store, Changes, Period, UpKey, DownKey, ZeroKey,
                Steps, Load, PreviousKey, NextKey, Select, ParentKey, LeaveKey, ChildKey, EditorKey,
                EditorTurn, EditorEnds, Dismiss, Open, Turn, GoOn
  <2>2. QED
    BY <2>1
<1>3. QED
  BY <1>1, <1>2

\* The rest of the types, that no other invariant has.
RestInv ==
  /\ ServerTypeOK /\ result \in Int
  /\ connected \in BOOLEAN /\ output \in BOOLEAN /\ late \in BOOLEAN /\ excused \in BOOLEAN

LEMMA RegulatorTypes ==
  ASSUME RestInv, Next
  PROVE  (connected \in BOOLEAN /\ output \in BOOLEAN /\ late \in BOOLEAN /\ excused \in BOOLEAN)'
<1>1. CASE UNCHANGED regVars
  BY <1>1 DEF RestInv, regVars
<1>2. CASE Connection \/ LateEnds
  BY <1>2 DEF Connection, LateEnds, RestInv
<1>3. CASE ChildKey
  <2>1. PICK accepted \in BOOLEAN : Prepare(m, accepted) \/ UNCHANGED regVars
    BY <1>3 DEF ChildKey, restVars
  <2>2. QED
    BY <1>1, <2>1 DEF Prepare, SwitchOn, RestInv
<1>4. CASE ParentKey
  <2>1. PICK refused \in BOOLEAN : CalibrExit(refused) \/ UNCHANGED regVars
    BY <1>4 DEF ParentKey, Exit, restVars
  <2>2. QED
    BY <1>1, <2>1 DEF CalibrExit, RestInv
<1>5. CASE Window /\ ~ChildKey /\ ~ParentKey
  <2>1. UNCHANGED regVars
    BY <1>5 DEF Window, Pass, Keys, NoKey, NoTurn, Store, Changes, Period, UpKey, DownKey, ZeroKey,
                Steps, Load, PreviousKey, NextKey, Select, LeaveKey, EditorKey,
                EditorTurn, EditorEnds, Dismiss, Open, Turn, restVars
  <2>2. QED
    BY <1>1, <2>1
<1>6. CASE UNCHANGED restVars
  BY <1>1, <1>6 DEF restVars
<1>7. QED
  BY <1>2, <1>3, <1>4, <1>5, <1>6 DEF Next

LEMMA RestCorrect == Spec => []RestInv
<1>1. Init => RestInv
  <2> SUFFICES ASSUME Init PROVE RestInv
    OBVIOUS
  <2>1. 1 \in 1 .. Len(List) + 1
    BY ParamAssumption
  <2>2. QED
    <3>1. ServerTypeOK
      <4>1. stored = 0 /\ asked = 0 /\ todo = 0 /\ cursor = 1
        BY DEF Init, ServerInit
      <4>2. todo \in 0 .. asked /\ asked \in 0 .. 123 /\ stored \in Nat
        BY <4>1
      <4>3. QED
        BY <2>1, <4>1, <4>2, Zenon DEF Init, ServerInit, ServerTypeOK, Stages, Answers
    <3>2. result \in Int
      BY DEF Init
    <3>3. /\ connected \in BOOLEAN /\ output \in BOOLEAN
          /\ late \in BOOLEAN /\ excused \in BOOLEAN
      BY DEF Init
    <3>4. QED
      BY <3>1, <3>2, <3>3 DEF RestInv
<1>2. RestInv /\ RangeInv' /\ RequestInv' /\ [Next]_vars => RestInv'
  <2> SUFFICES ASSUME RestInv, RangeInv', RequestInv', [Next]_vars PROVE RestInv'
    OBVIOUS
  <2>1. CASE Window
    <3>1. UNCHANGED serverVars
      BY <2>1, WindowServer
    <3>2. ServerTypeOK'
      BY <3>1 DEF RestInv, ServerTypeOK, serverVars
    <3>3. QED
      BY <2>1, <3>2, WindowResult, RegulatorTypes DEF RestInv, Next
  <2>2. CASE (Server \/ Client) /\ UNCHANGED <<menuVars, restVars>>
    <3>1. result' = result
      BY <2>2 DEF menuVars
    <3>2. QED
      BY <2>2, <3>1, ServerTypes, RegulatorTypes DEF RestInv, Next
  <2>3. CASE Connection \/ LateEnds
    <3>1. UNCHANGED serverVars /\ result' = result
      BY <2>3 DEF Connection, LateEnds, menuVars
    <3>2. ServerTypeOK'
      BY <3>1 DEF RestInv, ServerTypeOK, serverVars
    <3>3. QED
      BY <2>3, <3>1, <3>2, RegulatorTypes DEF RestInv, Next
  <2>4. CASE UNCHANGED vars
    BY <2>4 DEF vars, RestInv, ServerTypeOK, serverVars, menuVars, restVars, regVars
  <2>5. QED
    BY <2>1, <2>2, <2>3, <2>4 DEF Next
<1>3. QED
  BY <1>1, <1>2, RangeCorrect, RequestCorrect, PTL DEF Spec

\* The stack never grows past history[6], the cursor of a write never past the list's
\* end, and everything keeps its type, for any tree of items and any parameters.
THEOREM TypeCorrect == Spec => []TypeOK
<1>1. RangeInv /\ RestInv /\ StackInv => TypeOK
  <2> SUFFICES ASSUME RangeInv, RestInv, StackInv PROVE TypeOK
    OBVIOUS
  <2>1. \A p \in Params : value[p] \in Words(p)
    BY DEF RangeInv, Fits
  <2>2. Len(history) <= HistorySize
    <3>1. level[m] \in 0 .. HistorySize /\ (editor[m] => level[m] < HistorySize)
      BY Levels DEF StackInv, DepthInv
    <3>2. QED
      BY <3>1 DEF StackInv, DepthInv, HistorySize
  <2>3. QED
    BY <2>1, <2>2 DEF RangeInv, Fits, RestInv, StackInv, DepthInv, TypeOK
<1>2. QED
  BY <1>1, RangeCorrect, RestCorrect, StackCorrect, PTL

=============================================================================
