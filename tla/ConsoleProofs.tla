---------------------------- MODULE ConsoleProofs ----------------------------
(***************************************************************************)
(* Proofs about what stands between a user and the programs, in three      *)
(* parts that share nothing: the ring of the keyboard (Keyboard), the two  *)
(* shells and the foreground (Shell), and sleep (Timer).                   *)
(***************************************************************************)
EXTENDS Keyboard, Shell, Timer, SequenceTheorems, FiniteSetTheorems, TLAPS

---------------------------------------------------------------------------
(* The keyboard: to those who read it the ring is a queue that loses all   *)
(* its keys when one more is loaded than fits.  What is to be shown of     *)
(* every step is about the two indices modulo the size of the ring.        *)

\* The position of the i-th key from t on, the number of keys from t to d, the c keys
\* of the ring r from t on, as a sequence, and what a cell holds.
Spot(t, i) == (t + i - 1) % BUFFER_LENGTH
Ahead(d, t) == (d - t) % BUFFER_LENGTH
KeysOf(r, t, c) == [i \in 1 .. c |-> r[Spot(t, i)]]
InRing == Key \union {NoKey}

(* A number that is less than a turn below, or above, the ring.             *)
LEMMA OneTurn ==
    ASSUME NEW m \in Nat \ {0}, NEW x \in Int, x >= -m, x < m + m
    PROVE  x % m = IF x < 0 THEN x + m ELSE IF x < m THEN x ELSE x - m
<1> DEFINE k == x \div m
           y == x % m
<1>1. k \in Int /\ y \in 0 .. m - 1 /\ x = m * k + y
  OBVIOUS
<1>. HIDE DEF k, y
<1>2. ~ k >= 2
  <2>1. ASSUME k >= 2
        PROVE  m * k = m * 2 + m * (k - 2) /\ m * (k - 2) \in Nat
    BY <1>1, <2>1
  <2>. QED
    BY <1>1, <2>1
<1>3. ~ k <= -2
  <2>1. ASSUME k <= -2
        PROVE  m * k = -(m * 2) - m * (-2 - k) /\ m * (-2 - k) \in Nat
    BY <1>1, <2>1
  <2>. QED
    BY <1>1, <2>1
<1>4. k = 0 \/ k = 1 \/ k = -1
  BY <1>1, <1>2, <1>3
<1>. QED
  BY <1>1, <1>4 DEF y

(* Positions and distances, without their modulus.                          *)
LEMMA Spots ==
    ASSUME KeyboardAssumption, NEW t \in Positions
    PROVE  /\ \A i \in 1 .. BUFFER_LENGTH :
                 /\ Spot(t, i) \in Positions
                 /\ Spot(t, i) = IF t + i - 1 < BUFFER_LENGTH THEN t + i - 1
                                 ELSE t + i - 1 - BUFFER_LENGTH
           /\ \A d \in Positions :
                 /\ Ahead(d, t) \in Positions
                 /\ Ahead(d, t) = IF d < t THEN d - t + BUFFER_LENGTH ELSE d - t
           /\ Wrapped(t + 1) \in Positions
           /\ Wrapped(t + 1) = IF t + 1 < BUFFER_LENGTH THEN t + 1 ELSE 0
<1> DEFINE m == BUFFER_LENGTH
<1>1. m \in Nat /\ m > 1 /\ t \in Nat /\ t < m /\ m \in Nat \ {0}
  BY DEF KeyboardAssumption, Positions
<1>2. \A x \in Int : x >= -m /\ x < m + m =>
         x % m = IF x < 0 THEN x + m ELSE IF x < m THEN x ELSE x - m
  BY <1>1, OneTurn
<1>. HIDE DEF m
<1>3. ASSUME NEW i \in 1 .. m
      PROVE  (t + i - 1) % m = IF t + i - 1 < m THEN t + i - 1 ELSE t + i - 1 - m
  <2> DEFINE x == t + i - 1
  <2>1. x \in Int /\ x >= 0 /\ x < m + m
    BY <1>1
  <2>. HIDE DEF x
  <2>2. x % m = IF x < m THEN x ELSE x - m
    BY <1>1, <1>2, <2>1
  <2>3. t + i - 1 = x
    BY DEF x
  <2>. QED
    BY <1>1, <2>1, <2>2, <2>3
<1>4. ASSUME NEW d \in 0 .. m - 1
      PROVE  (d - t) % m = IF d < t THEN d - t + m ELSE d - t
  <2> DEFINE x == d - t
  <2>1. x \in Int /\ x >= -m /\ x < m /\ (x < 0 <=> d < t)
    BY <1>1
  <2>. HIDE DEF x
  <2>2. x % m = IF x < 0 THEN x + m ELSE x
    BY <1>1, <1>2, <2>1
  <2>. QED
    BY <2>1, <2>2 DEF x
<1>5. (t + 1) % m = IF t + 1 < m THEN t + 1 ELSE 0
  <2> DEFINE x == t + 1
  <2>1. x \in Int /\ x >= 0 /\ x < m + m /\ (~ x < m => x - m = 0)
    BY <1>1
  <2>. HIDE DEF x
  <2>2. x % m = IF x < m THEN x ELSE x - m
    BY <1>1, <1>2, <2>1
  <2>. QED
    BY <2>1, <2>2 DEF x
<1>6. Positions = 0 .. m - 1
  BY DEF Positions, m
<1>7. \A i \in 1 .. m :
         /\ Spot(t, i) \in Positions
         /\ Spot(t, i) = IF t + i - 1 < m THEN t + i - 1 ELSE t + i - 1 - m
  <2>. TAKE i \in 1 .. m
  <2>1. Spot(t, i) = IF t + i - 1 < m THEN t + i - 1 ELSE t + i - 1 - m
    BY <1>3 DEF Spot, m
  <2>. QED
    BY <1>1, <1>6, <2>1
<1>8. \A d \in Positions :
         /\ Ahead(d, t) \in Positions
         /\ Ahead(d, t) = IF d < t THEN d - t + m ELSE d - t
  <2>. TAKE d \in Positions
  <2>1. Ahead(d, t) = IF d < t THEN d - t + m ELSE d - t
    BY <1>4, <1>6 DEF Ahead, m
  <2>. QED
    BY <1>1, <1>6, <2>1
<1>9. /\ Wrapped(t + 1) \in Positions
      /\ Wrapped(t + 1) = IF t + 1 < m THEN t + 1 ELSE 0
  <2>1. Wrapped(t + 1) = IF t + 1 < m THEN t + 1 ELSE 0
    BY <1>5 DEF Wrapped, m
  <2>. QED
    BY <1>1, <1>6, <2>1
<1>. QED
  BY <1>7, <1>8, <1>9 DEF m

(* Where the handler loads, and what is left to read then.                  *)
LEMMA LoadFacts ==
    ASSUME KeyboardAssumption, NEW t \in Positions, NEW d \in Positions,
           NEW c, c = Ahead(d, t), NEW e, e = Wrapped(d + 1)
    PROVE  /\ c \in 0 .. BUFFER_LENGTH - 1 /\ e \in Positions
           /\ c = BUFFER_LENGTH - 1 => Ahead(e, t) = 0
           /\ c # BUFFER_LENGTH - 1 => Ahead(e, t) = c + 1 /\ Spot(t, c + 1) = d
           /\ \A i \in 1 .. c : Spot(t, i) \in Positions /\ Spot(t, i) # d
<1> DEFINE m == BUFFER_LENGTH
           f == Ahead(e, t)
<1>1. m \in Nat /\ m > 1 /\ t \in Nat /\ t < m /\ d \in Nat /\ d < m
  BY DEF KeyboardAssumption, Positions
<1>2. /\ c = IF d < t THEN d - t + m ELSE d - t
      /\ e \in Positions
      /\ e = IF d + 1 < m THEN d + 1 ELSE 0
      /\ f = IF e < t THEN e - t + m ELSE e - t
  BY Spots
<1>3. \A i \in 1 .. m :
         /\ Spot(t, i) \in Positions
         /\ Spot(t, i) = IF t + i - 1 < m THEN t + i - 1 ELSE t + i - 1 - m
  BY Spots
<1>. HIDE DEF m, f
<1>4. c \in 0 .. m - 1
  BY <1>1, <1>2
<1>5. c = m - 1 => f = 0
  BY <1>1, <1>2
<1>6. ASSUME c # m - 1
      PROVE  f = c + 1 /\ Spot(t, c + 1) = d
  <2>1. f = c + 1
    BY <1>1, <1>2, <1>6
  <2>2. PICK i \in 1 .. m : i = c + 1
    BY <1>1, <1>4, <1>6
  <2>3. Spot(t, i) = IF t + i - 1 < m THEN t + i - 1 ELSE t + i - 1 - m
    BY <1>3
  <2>4. Spot(t, i) = d
    BY <1>1, <1>2, <2>2, <2>3
  <2>. QED
    BY <2>1, <2>2, <2>4
<1>7. ASSUME NEW i \in 1 .. c
      PROVE  Spot(t, i) \in Positions /\ Spot(t, i) # d
  <2>1. i \in 1 .. m
    BY <1>1, <1>4
  <2>2. /\ Spot(t, i) \in Positions
        /\ Spot(t, i) = IF t + i - 1 < m THEN t + i - 1 ELSE t + i - 1 - m
    BY <1>3, <2>1
  <2>. QED
    BY <1>1, <1>2, <2>1, <2>2
<1>. QED
  BY <1>2, <1>4, <1>5, <1>6, <1>7 DEF m, f

(* What a reader takes, and what is left behind it.                         *)
LEMMA TakeFacts ==
    ASSUME KeyboardAssumption, NEW t \in Positions, NEW d \in Positions, d # t,
           NEW c, c = Ahead(d, t), NEW u, u = Wrapped(t + 1)
    PROVE  /\ c \in 1 .. BUFFER_LENGTH - 1 /\ u \in Positions
           /\ Ahead(d, u) = c - 1
           /\ Spot(t, 1) = t
           /\ \A i \in 1 .. c - 1 : Spot(u, i) = Spot(t, i + 1)
<1> DEFINE m == BUFFER_LENGTH
           f == Ahead(d, u)
<1>1. m \in Nat /\ m > 1 /\ t \in Nat /\ t < m /\ d \in Nat /\ d < m
  BY DEF KeyboardAssumption, Positions
<1>2. /\ c = IF d < t THEN d - t + m ELSE d - t
      /\ u \in Positions
      /\ u = IF t + 1 < m THEN t + 1 ELSE 0
  BY Spots
<1>3. f = IF d < u THEN d - u + m ELSE d - u
  BY <1>2, Spots
<1>4. \A s \in Positions : \A i \in 1 .. m :
         Spot(s, i) = IF s + i - 1 < m THEN s + i - 1 ELSE s + i - 1 - m
  BY Spots
<1>. HIDE DEF m, f
<1>5. c \in 1 .. m - 1
  BY <1>1, <1>2
<1>6. f = c - 1
  BY <1>1, <1>2, <1>3
<1>7. Spot(t, 1) = t
  <2>1. 1 \in 1 .. m
    BY <1>1
  <2>2. Spot(t, 1) = IF t + 1 - 1 < m THEN t + 1 - 1 ELSE t + 1 - 1 - m
    BY <1>4, <2>1
  <2>. QED
    BY <1>1, <2>2
<1>8. ASSUME NEW i \in 1 .. c - 1
      PROVE  Spot(u, i) = Spot(t, i + 1)
  <2>1. PICK j \in 1 .. m : j = i + 1
    BY <1>1, <1>5
  <2>2. i \in 1 .. m
    BY <1>1, <1>5
  <2>3. Spot(u, i) = IF u + i - 1 < m THEN u + i - 1 ELSE u + i - 1 - m
    BY <1>2, <1>4, <2>2
  <2>4. Spot(t, j) = IF t + j - 1 < m THEN t + j - 1 ELSE t + j - 1 - m
    BY <1>4
  <2>5. Spot(u, i) = Spot(t, j)
    BY <1>1, <1>2, <1>5, <2>1, <2>2, <2>3, <2>4
  <2>. QED
    BY <2>1, <2>5
<1>. QED
  BY <1>2, <1>5, <1>6, <1>7, <1>8 DEF m, f

(* The keys are a sequence.                                                 *)
LEMMA KeysAreSequence ==
    ASSUME KeyboardAssumption, NEW r \in [Positions -> InRing], NEW t \in Positions,
           NEW c \in 0 .. BUFFER_LENGTH - 1
    PROVE  /\ KeysOf(r, t, c) \in Seq(InRing) /\ Len(KeysOf(r, t, c)) = c
           /\ \A i \in 1 .. c : KeysOf(r, t, c)[i] = r[Spot(t, i)]
<1>1. c \in Nat /\ BUFFER_LENGTH \in Nat
  BY DEF KeyboardAssumption
<1>2. ASSUME NEW i \in 1 .. c
      PROVE  r[Spot(t, i)] \in InRing
  <2>1. i \in 1 .. BUFFER_LENGTH
    BY <1>1
  <2>. QED
    BY <2>1, Spots
<1>3. KeysOf(r, t, c) \in [1 .. c -> InRing]
  BY <1>2 DEF KeysOf
<1>. QED
  BY <1>1, <1>3 DEF KeysOf

(* A key loaded into the ring is one more at its end; the one that fills it *)
(* makes it look empty.                                                     *)
LEMMA LoadIsType ==
    ASSUME KeyboardAssumption, NEW r \in [Positions -> InRing], NEW k \in InRing,
           NEW t \in Positions, NEW d \in Positions,
           NEW e, e = Wrapped(d + 1), NEW s \in [Positions -> InRing], s[d] = k,
           \A i \in Positions \ {d} : s[i] = r[i]
    PROVE  /\ Len(KeysOf(r, t, Ahead(d, t))) = BUFFER_LENGTH - 1 =>
                KeysOf(s, t, Ahead(e, t)) = <<>>
           /\ Len(KeysOf(r, t, Ahead(d, t))) # BUFFER_LENGTH - 1 =>
                KeysOf(s, t, Ahead(e, t)) = Append(KeysOf(r, t, Ahead(d, t)), k)
<1> DEFINE c == Ahead(d, t)
           f == Ahead(e, t)
           a == KeysOf(r, t, c)
           b == KeysOf(s, t, f)
<1>1. c = Ahead(d, t) /\ f = Ahead(e, t)
  OBVIOUS
<1>. HIDE DEF c, f
<1>2. /\ c \in 0 .. BUFFER_LENGTH - 1 /\ c \in Nat /\ BUFFER_LENGTH \in Nat
      /\ c = BUFFER_LENGTH - 1 => f = 0
      /\ c # BUFFER_LENGTH - 1 => f = c + 1 /\ Spot(t, c + 1) = d
      /\ \A i \in 1 .. c : Spot(t, i) \in Positions /\ Spot(t, i) # d
  BY <1>1, LoadFacts DEF KeyboardAssumption
<1>3. /\ a \in Seq(InRing) /\ Len(a) = c
      /\ \A i \in 1 .. c : a[i] = r[Spot(t, i)]
  BY <1>2, KeysAreSequence
<1>4. f \in 0 .. BUFFER_LENGTH - 1
  BY <1>2
<1>5. /\ b \in Seq(InRing) /\ Len(b) = f
      /\ \A i \in 1 .. f : b[i] = s[Spot(t, i)]
  BY <1>4, KeysAreSequence
<1>. HIDE DEF a, b
<1>6. CASE c = BUFFER_LENGTH - 1
  <2>1. b = <<>>
    BY <1>2, <1>5, <1>6, EmptySeq
  <2>. QED
    BY <1>1, <1>3, <1>6, <2>1 DEF a, b
<1>7. CASE c # BUFFER_LENGTH - 1
  <2>1. f = c + 1 /\ Spot(t, f) = d /\ f \in 1 .. f
    BY <1>2, <1>7
  <2>2. b[f] = k
    BY <1>5, <2>1
  <2>3. /\ Append(a, k) \in Seq(InRing) /\ Len(Append(a, k)) = f
        /\ \A i \in 1 .. c : Append(a, k)[i] = a[i]
        /\ Append(a, k)[f] = k
    BY <1>3, <2>1, AppendProperties
  <2>4. ASSUME NEW i \in 1 .. f
        PROVE  Append(a, k)[i] = b[i]
    <3>1. CASE i = f
      BY <2>2, <2>3, <3>1
    <3>2. CASE i # f
      <4>1. i \in 1 .. c
        BY <1>2, <2>1, <3>2
      <4>2. s[Spot(t, i)] = r[Spot(t, i)]
        BY <1>2, <4>1
      <4>. QED
        BY <1>3, <1>5, <2>3, <4>1, <4>2
    <3>. QED
      BY <3>1, <3>2
  <2>5. Append(a, k) = b
    BY <1>5, <2>3, <2>4, SeqEqual
  <2>. QED
    BY <1>1, <1>3, <1>7, <2>5 DEF a, b
<1>. QED
  BY <1>6, <1>7

(* The key a reader takes out is the first one, and the others stay.        *)
LEMMA TakeIsHead ==
    ASSUME KeyboardAssumption, NEW r \in [Positions -> InRing],
           NEW t \in Positions, NEW d \in Positions, d # t, NEW u, u = Wrapped(t + 1)
    PROVE  /\ KeysOf(r, t, Ahead(d, t)) # <<>>
           /\ r[t] = Head(KeysOf(r, t, Ahead(d, t)))
           /\ KeysOf(r, u, Ahead(d, u)) = Tail(KeysOf(r, t, Ahead(d, t)))
<1> DEFINE c == Ahead(d, t)
           f == Ahead(d, u)
           a == KeysOf(r, t, c)
           b == KeysOf(r, u, f)
<1>1. c = Ahead(d, t) /\ f = Ahead(d, u)
  OBVIOUS
<1>. HIDE DEF c, f
<1>2. /\ c \in 1 .. BUFFER_LENGTH - 1 /\ c \in Nat /\ BUFFER_LENGTH \in Nat
      /\ u \in Positions /\ f = c - 1 /\ Spot(t, 1) = t
      /\ \A i \in 1 .. c - 1 : Spot(u, i) = Spot(t, i + 1)
  BY <1>1, TakeFacts DEF KeyboardAssumption
<1>3. {c, f} \subseteq 0 .. BUFFER_LENGTH - 1 /\ 1 \in 1 .. c
  BY <1>2
<1>4. /\ a \in Seq(InRing) /\ Len(a) = c
      /\ \A i \in 1 .. c : a[i] = r[Spot(t, i)]
  BY <1>3, KeysAreSequence
<1>5. /\ b \in Seq(InRing) /\ Len(b) = f
      /\ \A i \in 1 .. f : b[i] = r[Spot(u, i)]
  BY <1>2, <1>3, KeysAreSequence
<1>. HIDE DEF a, b
<1>6. a # <<>>
  BY <1>2, <1>4, EmptySeq
<1>7. /\ Tail(a) \in Seq(InRing) /\ Len(Tail(a)) = f /\ Head(a) = a[1]
      /\ \A i \in 1 .. f : Tail(a)[i] = a[i + 1]
  BY <1>2, <1>4, <1>6, HeadTailProperties
<1>8. ASSUME NEW i \in 1 .. f
      PROVE  Tail(a)[i] = b[i]
  <2>1. PICK j \in 1 .. c : j = i + 1
    BY <1>2
  <2>2. Tail(a)[i] = a[j] /\ a[j] = r[Spot(t, j)] /\ Spot(u, i) = Spot(t, j)
    BY <1>2, <1>4, <1>7, <2>1
  <2>. QED
    BY <1>5, <2>2
<1>9. Tail(a) = b
  BY <1>5, <1>7, <1>8, SeqEqual
<1>10. r[t] = Head(a)
  BY <1>2, <1>3, <1>4, <1>7
<1>. QED
  BY <1>1, <1>6, <1>9, <1>10 DEF a, b

-----------------------------------------------------------------------------
\* What the refinement needs: a reader that asks for a key has none.
KbdInv ==
    /\ ring \in [Positions -> Key \union {NoKey}]
    /\ dim \in Positions /\ toPrint \in Positions
    /\ pressed \in [keys : 0 .. MaxKeys, mods : Nat]
    /\ step \notin {"decode", "decodeSecond"} => letter = NoKey

(* The ring starts empty, and nobody has a key.                             *)
LEMMA KbdInvInit ==
    ASSUME KeyboardAssumption, KbdInit
    PROVE  KbdInv
  BY DEF KeyboardAssumption, KbdInit, KbdInv, Positions

(* The key that is loaded.                                                  *)
LEMMA LoadedKey ==
    ASSUME KeyboardAssumption, KbdInv, bufferLoader
    PROVE  \E k \in Key : Load(k)
<1>1. PICK s \in {"d", "other"} : Load([key |-> s, n |-> pressed.keys + 1])
  BY DEF bufferLoader
<1>2. pressed.keys + 1 \in 1 .. MaxKeys
  BY DEF KeyboardAssumption, KbdInv, bufferLoader
<1>3. [key |-> s, n |-> pressed.keys + 1] \in Key
  BY <1>2 DEF Key
<1>. QED
  BY <1>1, <1>3

(* The handler and the calls keep it.                                       *)
LEMMA KbdInvNext ==
    ASSUME KeyboardAssumption, KbdInv, [KbdNext]_kbdVars
    PROVE  KbdInv'
<1>. USE DEF KbdInv
<1>1. CASE bufferLoader
  <2>1. PICK k \in Key : Load(k)
    BY <1>1, LoadedKey
  <2>2. ring' \in [Positions -> Key \union {NoKey}] /\ toPrint' \in Positions
    BY <2>1 DEF Load
  <2>3. dim' \in Positions
    BY <2>1, Spots DEF Load
  <2>4. pressed' \in [keys : 0 .. MaxKeys, mods : Nat]
    <3>1. pressed.keys + 1 \in 0 .. MaxKeys
      BY <1>1 DEF KeyboardAssumption, bufferLoader
    <3>. QED
      BY <1>1, <3>1 DEF bufferLoader
  <2>5. UNCHANGED <<step, letter>>
    BY <1>1 DEF bufferLoader, readVars
  <2>. QED
    BY <2>2, <2>3, <2>4, <2>5
<1>2. CASE ModifierEvent
  BY <1>2 DEF ModifierEvent, ringVars, readVars
<1>3. CASE TypesCtrlC
  BY <1>3 DEF TypesCtrlC, ringVars
<1>4. CASE GetsForeground
  BY <1>4 DEF GetsForeground, ringVars, readVars
<1>5. ASSUME NEW found, NEW empty, GetsKey(found, empty), letter = NoKey,
             found \in {"decode", "decodeSecond"}
      PROVE  KbdInv'
  <2>1. CASE EmptyRing
    BY <1>5, <2>1 DEF GetsKey
  <2>2. CASE ~ EmptyRing
    <3>1. toPrint' = Wrapped(toPrint + 1) /\ toPrint' \in Positions
      BY <1>5, <2>2, Spots DEF GetsKey
    <3>. QED
      BY <1>5, <2>2, <3>1 DEF GetsKey
  <2>. QED
    BY <2>1, <2>2
<1>6. CASE ReaderStep
  <2>1. CASE Reads
    BY <2>1 DEF Reads, ringVars
  <2>2. CASE WaitForForeground
    BY <2>2 DEF WaitForForeground, ringVars
  <2>3. CASE FirstGetKey
    BY <1>5, <2>3 DEF FirstGetKey
  <2>4. CASE SecondGetKey
    BY <1>5, <2>4 DEF SecondGetKey
  <2>5. CASE Decode
    BY <2>5 DEF Decode, ringVars
  <2>6. CASE DecodeSecond
    BY <2>6 DEF DecodeSecond, ringVars
  <2>7. CASE Sleep
    BY <2>7 DEF Sleep, ringVars
  <2>. QED
    BY <1>6, <2>1, <2>2, <2>3, <2>4, <2>5, <2>6, <2>7 DEF ReaderStep
<1>7. CASE UNCHANGED kbdVars
  BY <1>7 DEF kbdVars, ringVars, readVars
<1>. QED
  BY <1>1, <1>2, <1>3, <1>4, <1>6, <1>7 DEF KbdNext

\* The queue the ring stands for.
RingQueue == KeysOf(ring, toPrint, Ahead(dim, toPrint))

(* Every step of the keyboard is one of the queue, or leaves it alone.      *)
LEMMA KbdStep ==
    ASSUME KeyboardAssumption, KbdInv, [KbdNext]_kbdVars
    PROVE  \/ UNCHANGED <<RingQueue, letter>>
           \/ letter' = NoKey /\ UNCHANGED RingQueue
           \/ /\ RingQueue # <<>> /\ letter = NoKey
              /\ letter' = Head(RingQueue) /\ RingQueue' = Tail(RingQueue)
           \/ \E k \in Key :
                /\ RingQueue' = IF Len(RingQueue) = BUFFER_LENGTH - 1 THEN <<>>
                                ELSE Append(RingQueue, k)
                /\ UNCHANGED letter
<1>0. UNCHANGED ringVars => UNCHANGED RingQueue
  BY DEF ringVars, RingQueue
<1>1. CASE bufferLoader
  <2>1. PICK k \in Key : Load(k)
    BY <1>1, LoadedKey
  <2>2. /\ ring' = [ring EXCEPT ![dim] = k] /\ dim' = Wrapped(dim + 1)
        /\ toPrint' = toPrint /\ UNCHANGED letter
    BY <1>1, <2>1 DEF Load, bufferLoader, readVars
  <2>3. /\ ring \in [Positions -> InRing] /\ k \in InRing
        /\ dim \in Positions /\ toPrint \in Positions
    BY DEF KbdInv, InRing
  <2>4. /\ ring' \in [Positions -> InRing] /\ ring'[dim] = k
        /\ \A i \in Positions \ {dim} : ring'[i] = ring[i]
    BY <2>2, <2>3
  <2>5. dim' = Wrapped(dim + 1)
    BY <2>2
  <2>6. /\ Len(KeysOf(ring, toPrint, Ahead(dim, toPrint))) = BUFFER_LENGTH - 1 =>
             KeysOf(ring', toPrint, Ahead(dim', toPrint)) = <<>>
        /\ Len(KeysOf(ring, toPrint, Ahead(dim, toPrint))) # BUFFER_LENGTH - 1 =>
             KeysOf(ring', toPrint, Ahead(dim', toPrint)) =
               Append(KeysOf(ring, toPrint, Ahead(dim, toPrint)), k)
    BY <2>3, <2>4, <2>5, LoadIsType
  <2>7. RingQueue' = IF Len(RingQueue) = BUFFER_LENGTH - 1 THEN <<>>
                     ELSE Append(RingQueue, k)
    BY <2>2, <2>6 DEF RingQueue
  <2>. QED
    BY <2>2, <2>7
<1>2. CASE ModifierEvent
  BY <1>0, <1>2 DEF ModifierEvent, readVars
<1>3. CASE TypesCtrlC
  BY <1>0, <1>3 DEF TypesCtrlC
<1>4. CASE GetsForeground
  BY <1>0, <1>4 DEF GetsForeground, readVars
<1>5. ASSUME NEW found, NEW empty, GetsKey(found, empty), letter = NoKey
      PROVE  \/ UNCHANGED <<RingQueue, letter>>
             \/ /\ RingQueue # <<>> /\ letter = NoKey
                /\ letter' = Head(RingQueue) /\ RingQueue' = Tail(RingQueue)
  <2>1. CASE EmptyRing
    BY <1>0, <1>5, <2>1 DEF GetsKey, ringVars
  <2>2. CASE ~ EmptyRing
    <3>1. /\ letter' = ring[toPrint] /\ toPrint' = Wrapped(toPrint + 1)
          /\ ring' = ring /\ dim' = dim /\ dim # toPrint
      BY <1>5, <2>2 DEF GetsKey, getKey, EmptyRing
    <3>2. /\ ring \in [Positions -> InRing]
          /\ dim \in Positions /\ toPrint \in Positions
      BY DEF KbdInv, InRing
    <3>3. /\ KeysOf(ring, toPrint, Ahead(dim, toPrint)) # <<>>
          /\ ring[toPrint] = Head(KeysOf(ring, toPrint, Ahead(dim, toPrint)))
          /\ KeysOf(ring, toPrint', Ahead(dim, toPrint')) =
               Tail(KeysOf(ring, toPrint, Ahead(dim, toPrint)))
      BY <3>1, <3>2, TakeIsHead
    <3>. QED
      BY <1>5, <3>1, <3>3 DEF RingQueue
  <2>. QED
    BY <2>1, <2>2
<1>6. CASE ReaderStep
  <2>1. CASE Reads
    BY <1>0, <2>1 DEF Reads
  <2>2. CASE WaitForForeground
    BY <1>0, <2>2 DEF WaitForForeground
  <2>3. CASE FirstGetKey
    BY <1>5, <2>3 DEF FirstGetKey, KbdInv
  <2>4. CASE SecondGetKey
    BY <1>5, <2>4 DEF SecondGetKey, KbdInv
  <2>5. CASE Decode
    BY <1>0, <2>5 DEF Decode
  <2>6. CASE DecodeSecond
    BY <1>0, <2>6 DEF DecodeSecond
  <2>7. CASE Sleep
    BY <1>0, <2>7 DEF Sleep
  <2>. QED
    BY <1>6, <2>1, <2>2, <2>3, <2>4, <2>5, <2>6, <2>7 DEF ReaderStep
<1>7. CASE UNCHANGED kbdVars
  BY <1>0, <1>7 DEF kbdVars, readVars
<1>. QED
  BY <1>1, <1>2, <1>3, <1>4, <1>6, <1>7 DEF KbdNext

(* The ring of the keyboard implements a queue that loses all its keys when *)
(* one more is loaded than fits (keyboard.c:65-90).                         *)
THEOREM RingIsAKeyQueue ==
    ASSUME KeyboardAssumption
    PROVE  KbdSpec => QueueSpec
<1> DEFINE q == [i \in 1 .. Pending |-> ring[(toPrint + i - 1) % BUFFER_LENGTH]]
<1>1. q = RingQueue /\ q' = RingQueue'
  BY DEF RingQueue, KeysOf, Spot, Ahead, Pending
<1>2. ASSUME KbdInit
      PROVE  Queue!QueueInit
  <2>1. Ahead(dim, toPrint) = 0
    <3>1. dim \in Positions /\ toPrint = dim
      BY <1>2 DEF KbdInit, KeyboardAssumption, Positions
    <3>. QED
      BY <3>1, Spots DEF Positions, KeyboardAssumption
  <2>2. RingQueue = <<>>
    <3>1. 1 .. 0 = {}
      OBVIOUS
    <3>. QED
      BY <2>1, <3>1 DEF RingQueue, KeysOf
  <2>3. q = <<>>
    BY <1>1, <2>2
  <2>. QED
    BY <1>2, <2>3 DEF Queue!QueueInit, KbdInit
<1>3. ASSUME KbdInv, [KbdNext]_kbdVars
      PROVE  [Queue!QueueNext]_Queue!queueVars
  <2>1. CASE UNCHANGED <<RingQueue, letter>>
    <3>1. q' = q /\ letter' = letter
      BY <1>1, <2>1
    <3>. QED
      BY <3>1 DEF Queue!queueVars
  <2>2. CASE letter' = NoKey /\ UNCHANGED RingQueue
    <3>1. letter' = NoKey /\ q' = q
      BY <1>1, <2>2
    <3>. QED
      BY <3>1 DEF Queue!QueueNext, Queue!Done
  <2>3. CASE /\ RingQueue # <<>> /\ letter = NoKey
             /\ letter' = Head(RingQueue) /\ RingQueue' = Tail(RingQueue)
    <3>1. q # <<>> /\ letter = NoKey /\ letter' = Head(q) /\ q' = Tail(q)
      BY <1>1, <2>3
    <3>. QED
      BY <3>1 DEF Queue!QueueNext, Queue!Take
  <2>4. CASE \E k \in Key :
               /\ RingQueue' = IF Len(RingQueue) = BUFFER_LENGTH - 1 THEN <<>>
                               ELSE Append(RingQueue, k)
               /\ UNCHANGED letter
    <3>1. PICK k \in Key :
            /\ q' = IF Len(q) = BUFFER_LENGTH - 1 THEN <<>> ELSE Append(q, k)
            /\ letter' = letter
      BY <1>1, <2>4
    <3>2. Queue!Type(k)
      BY <3>1 DEF Queue!Type
    <3>. QED
      BY <3>2 DEF Queue!QueueNext
  <2>. QED
    BY <1>3, <2>1, <2>2, <2>3, <2>4, KbdStep
<1>4. KbdInit => KbdInv
  BY KbdInvInit
<1>5. KbdInv /\ [KbdNext]_kbdVars => KbdInv'
  BY KbdInvNext
<1>. QED
  BY <1>2, <1>3, <1>4, <1>5, PTL DEF KbdSpec, QueueSpec, Queue!QueueSpec

---------------------------------------------------------------------------
(* The shells.  A second shell is a child of the first, which waits for it.*)
(* The terminal variables are shared by the two, and the foreground is one *)
(* process: what keeps them apart is that the first shell is between the   *)
(* launch of the second and its end (OneAtATime) as long as that one lives.*)

\* Where a shell is when the foreground is its own or nobody's.
AtHome == {"loop", "away", "reading", "parse", "run", "reset", "pop", "notify"}

\* Where the second shell is before it has taken a key.
Early == {"start", "loop", "away", "reading"}

ShapeOK ==
    /\ status \in [Procs -> {"unborn", "ready", "blocked", "dead"}]
    /\ waiting \in [Procs -> Procs \cup {NoProcess}]
    /\ parent \in [Procs -> Procs \cup {NoProcess}]
    /\ place \in [Shells -> Steps]
    /\ cmd \in [Shells -> [kind : Kinds, bg : BOOLEAN]]
    /\ child \in [Shells -> Procs \cup {NoProcess}]
    /\ toggled \in BOOLEAN

\* As long as the second shell lives, the first is on its way to wait for it, and
\* nobody has typed since, or it waits.
OneAtATime ==
    Lives(Second) =>
      /\ parent[Second] = First /\ child[First] = Second
      /\ \/ /\ status[First] = "ready" /\ place[First] \in {"handle", "setfg", "waitpid"}
            /\ place[Second] \in Early
            /\ place[First] = "handle" => cmd[First].bg = FALSE
         \/ status[First] = "blocked" /\ place[First] = "clear" /\ waiting[First] = Second

\* The first shell is nobody's child; a shell sleeps in waitpid alone.
Kinship ==
    /\ parent[First] = NoProcess /\ status[First] # "unborn"
    /\ status[Second] = "unborn" => place[Second] = "start"
    /\ \A s \in Shells : status[s] = "blocked" => place[s] = "clear"

\* A shell that is at home, or about to announce its job, has the foreground or nobody
\* has.
HomeIsForeground ==
    \A s \in Shells : status[s] = "ready" =>
      /\ place[s] \in AtHome => fg \in {s, NoProcess}
      /\ place[s] = "handle" /\ flag => fg \in {s, NoProcess}

FlagIsRight ==
    \A s \in Shells :
        status[s] = "ready" /\ place[s] \in {"run", "handle"} => flag = cmd[s].bg

Untoggled == OneAtATime /\ Kinship /\ HomeIsForeground /\ FlagIsRight

ShellInv == ~ toggled => ShapeOK /\ Untoggled

\* The two shells are two processes.
LEMMA TwoShells ==
    ASSUME ShellAssumption
    PROVE  /\ First \in Shells /\ Second \in Shells /\ First # Second
           /\ First \in Procs /\ Second \in Procs /\ Shells \subseteq Procs
           /\ NoProcess \notin Procs /\ First \notin Jobs /\ Second \notin Jobs
           /\ \A s \in Shells : s = First \/ s = Second
BY DEF ShellAssumption, Shells, Procs

(* Processes end: when the first shell does, the second one goes with it.  *)
LEMMA PerishKeeps ==
    ASSUME ShellAssumption, ShapeOK, Untoggled, NEW dead, Perish(dead),
           First \in dead /\ Lives(Second) => Second \in dead,
           parent' \in [Procs -> Procs \cup {NoProcess}], parent'[First] = NoProcess,
           Lives(Second) /\ Second \notin dead => parent'[Second] = First,
           NEW s \in Shells,
           \/ place' = place
           \/ /\ status[s] = "ready" /\ place[s] = "run"
              /\ place' = [place EXCEPT ![s] = "reset"],
           UNCHANGED <<cmd, child, flag, toggled>>
    PROVE  ShapeOK' /\ Untoggled'
<1>1. /\ \A p \in Procs : status'[p] =
            IF p \in dead THEN "dead"
            ELSE IF waiting[p] \in dead /\ status[p] = "blocked" THEN "ready"
            ELSE status[p]
      /\ \A p \in Procs : waiting'[p] =
            IF p \in dead \/ waiting[p] \in dead THEN NoProcess ELSE waiting[p]
      /\ fg' = IF fg \in dead THEN NoProcess ELSE fg
  BY DEF Perish
<1>2. ShapeOK'
  <2>1. status' \in [Procs -> {"unborn", "ready", "blocked", "dead"}]
    BY DEF Perish, ShapeOK
  <2>2. waiting' \in [Procs -> Procs \cup {NoProcess}]
    BY DEF Perish, ShapeOK
  <2>3. place' \in [Shells -> Steps]
    BY DEF ShapeOK, Steps
  <2>. QED
    BY <2>1, <2>2, <2>3 DEF ShapeOK
<1>3. /\ \A t \in Shells : place'[t] = place[t]
                           \/ /\ status[t] = "ready" /\ place[t] = "run"
                              /\ place'[t] = "reset"
  BY DEF ShapeOK
<1>4. OneAtATime'
  <2>1. SUFFICES ASSUME Lives(Second)'
                 PROVE  /\ parent'[Second] = First /\ child'[First] = Second
                        /\ \/ /\ status'[First] = "ready"
                              /\ place'[First] \in {"handle", "setfg", "waitpid"}
                              /\ place'[Second] \in Early
                              /\ place'[First] = "handle" => cmd'[First].bg = FALSE
                           \/ /\ status'[First] = "blocked" /\ place'[First] = "clear"
                              /\ waiting'[First] = Second
    BY DEF OneAtATime
  <2>2. Second \notin dead /\ Lives(Second)
    BY <1>1, <2>1, TwoShells DEF Lives
  <2>3. First \notin dead
    BY <2>2
  <2>4. CASE /\ status[First] = "ready" /\ place[First] \in {"handle", "setfg", "waitpid"}
             /\ place[Second] \in Early
             /\ place[First] = "handle" => cmd[First].bg = FALSE
    <3>1. place'[First] = place[First] /\ place'[Second] = place[Second]
      BY <1>3, <2>4, TwoShells DEF Early
    <3>2. status'[First] = "ready"
      BY <1>1, <2>3, <2>4, TwoShells
    <3>. QED
      BY <2>2, <2>4, <3>1, <3>2 DEF Untoggled, OneAtATime
  <2>5. CASE status[First] = "blocked" /\ place[First] = "clear" /\ waiting[First] = Second
    <3>1. place'[First] = "clear"
      BY <1>3, <2>5, TwoShells
    <3>2. status'[First] = "blocked" /\ waiting'[First] = Second
      BY <1>1, <2>2, <2>3, <2>5, TwoShells
    <3>. QED
      BY <2>2, <3>1, <3>2 DEF Untoggled, OneAtATime
  <2>. QED
    BY <2>2, <2>4, <2>5 DEF Untoggled, OneAtATime
<1>5. Kinship'
  <2>1. status'[First] # "unborn"
    BY <1>1, TwoShells DEF Untoggled, Kinship
  <2>2. status'[Second] = "unborn" => place'[Second] = "start"
    BY <1>1, <1>3, TwoShells DEF Untoggled, Kinship
  <2>3. ASSUME NEW t \in Shells, status'[t] = "blocked"
        PROVE  place'[t] = "clear"
    <3>1. status[t] = "blocked"
      BY <1>1, <2>3, TwoShells
    <3>. QED
      BY <1>3, <3>1 DEF Untoggled, Kinship
  <2>. QED
    BY <2>1, <2>2, <2>3 DEF Kinship
<1>6. ASSUME NEW t \in Shells, status'[t] = "ready"
      PROVE  status[t] = "ready" \/ place[t] = "clear"
  BY <1>1, <1>6, TwoShells DEF Untoggled, Kinship
<1>7. HomeIsForeground'
  <2>1. ASSUME NEW t \in Shells, status'[t] = "ready"
        PROVE  /\ place'[t] \in AtHome => fg' \in {t, NoProcess}
               /\ place'[t] = "handle" /\ flag' => fg' \in {t, NoProcess}
    <3>1. CASE place[t] = "clear"
      BY <1>3, <3>1 DEF AtHome
    <3>2. CASE status[t] = "ready"
      <4>1. place'[t] \in AtHome => place[t] \in AtHome
        BY <1>3 DEF AtHome
      <4>2. place'[t] = "handle" => place[t] = "handle"
        BY <1>3
      <4>. QED
        BY <1>1, <3>2, <4>1, <4>2 DEF Untoggled, HomeIsForeground
    <3>. QED
      BY <1>6, <2>1, <3>1, <3>2
  <2>. QED
    BY <2>1 DEF HomeIsForeground
<1>8. FlagIsRight'
  <2>1. ASSUME NEW t \in Shells, status'[t] = "ready", place'[t] \in {"run", "handle"}
        PROVE  flag' = cmd'[t].bg
    <3>1. status[t] = "ready" /\ place[t] \in {"run", "handle"}
      BY <1>3, <1>6, <2>1
    <3>. QED
      BY <3>1 DEF Untoggled, FlagIsRight
  <2>. QED
    BY <2>1 DEF FlagIsRight
<1>. QED
  BY <1>2, <1>4, <1>5, <1>7, <1>8 DEF Untoggled

(* kill_process(p): nobody has the first shell for a child.                *)
LEMMA ShellKillKeeps ==
    ASSUME ShellAssumption, ShapeOK, Untoggled, NEW p, p # NoProcess, kill_process(p),
           NEW s \in Shells,
           \/ place' = place
           \/ /\ status[s] = "ready" /\ place[s] = "run"
              /\ place' = [place EXCEPT ![s] = "reset"],
           UNCHANGED <<cmd, child, flag, toggled>>
    PROVE  ShapeOK' /\ Untoggled'
<1> DEFINE Sons(S) == {q \in Procs : Lives(q) /\ parent[q] \in S}
<1>1. Family(p) = {p} \cup Sons({p}) \cup Sons(Sons({p}))
  BY DEF Family
<1>2. parent[First] = NoProcess /\ NoProcess \notin Procs
  BY TwoShells DEF Untoggled, Kinship
<1>3. ASSUME First \in Family(p), Lives(Second)
      PROVE  Second \in Family(p)
  <2>1. First \notin Sons({p}) /\ First \notin Sons(Sons({p}))
    BY <1>2
  <2>2. p = First
    BY <1>1, <1>3, <2>1
  <2>3. Second \in Sons({p})
    BY <1>3, <2>2, TwoShells DEF Untoggled, OneAtATime
  <2>. QED
    BY <1>1, <2>3
<1>4. Perish(Family(p)) /\ parent' = parent
  BY DEF kill_process
<1>5. /\ parent' \in [Procs -> Procs \cup {NoProcess}] /\ parent'[First] = NoProcess
      /\ Lives(Second) /\ Second \notin Family(p) => parent'[Second] = First
  BY <1>2, <1>4 DEF ShapeOK, Untoggled, OneAtATime
<1>. QED
  BY <1>3, <1>4, <1>5, PerishKeeps

(* An exit hands the children over: the first shell only ends when it has  *)
(* no second one.                                                          *)
LEMMA ExitKeeps ==
    ASSUME ShellAssumption, ShapeOK, Untoggled, NEW p \in Procs, exit_current_process(p),
           p = First => ~ Lives(Second),
           NEW s \in Shells,
           \/ place' = place
           \/ /\ status[s] = "ready" /\ place[s] = "run"
              /\ place' = [place EXCEPT ![s] = "reset"],
           UNCHANGED <<cmd, child, flag, toggled>>
    PROVE  ShapeOK' /\ Untoggled'
<1>1. /\ Perish({p})
      /\ parent' = [q \in Procs |-> IF parent[q] = p THEN parent[p] ELSE parent[q]]
  BY DEF exit_current_process
<1>2. parent' \in [Procs -> Procs \cup {NoProcess}]
  BY <1>1 DEF ShapeOK
<1>3. parent'[First] = NoProcess
  BY <1>1, TwoShells DEF Untoggled, Kinship
<1>4. Lives(Second) /\ Second \notin {p} => parent'[Second] = First
  BY <1>1, TwoShells DEF Untoggled, OneAtATime
<1>5. First \in {p} /\ Lives(Second) => Second \in {p}
  OBVIOUS
<1>. QED
  BY <1>1, <1>2, <1>3, <1>4, <1>5, PerishKeeps

\* A shell that runs a command, or ends it, is the only one that runs.
LEMMA Alone ==
    ASSUME ShellAssumption, ShapeOK, Untoggled, NEW s \in Shells, status[s] = "ready",
           place[s] \notin Early
    PROVE  /\ s = First /\ place[s] \notin {"handle", "setfg", "waitpid"} => ~ Lives(Second)
           /\ s = Second =>
                 /\ status[First] = "blocked" /\ place[First] = "clear"
                 /\ waiting[First] = Second
BY TwoShells DEF Lives, Untoggled, OneAtATime

\* Of two shells that run, one waits for a key or the foreground and the other will wait
\* for it.
LEMMA BothRun ==
    ASSUME ShellAssumption, ShapeOK, Untoggled, status[First] = "ready", Lives(Second)
    PROVE  /\ place[First] \in {"handle", "setfg", "waitpid"} /\ place[Second] \in Early
           /\ child[First] = Second
           /\ place[First] = "handle" => flag = FALSE
BY TwoShells DEF Untoggled, OneAtATime, FlagIsRight

(* A shell goes on, and nothing else changes but the line it has read.     *)
LEMMA WalkKeeps ==
    ASSUME ShellAssumption, ShapeOK, Untoggled, NEW s \in Shells,
           NEW from, NEW to \in Steps,
           status[s] = "ready", place[s] = from, place' = [place EXCEPT ![s] = to],
           UNCHANGED <<procVars, child, flag, toggled>>,
           cmd' \in [Shells -> [kind : Kinds, bg : BOOLEAN]],
           \A t \in Shells : cmd'[t] = cmd[t] \/ (t = s /\ to = "parse"),
           to \notin {"handle", "run", "start"},
           to \in AtHome => from \in AtHome \/ (from = "handle" /\ flag),
           \/ from \in Early /\ to \in Early
           \/ to = "parse" /\ from = "reading" /\ Settled(s)
           \/ from = "handle" /\ to = "setfg"
           \/ from = "handle" /\ to = "reset" /\ flag
           \/ from \in {"run", "pop", "notify"}
    PROVE  ShapeOK' /\ Untoggled'
<1>1. /\ place'[s] = to /\ \A t \in Shells \ {s} : place'[t] = place[t]
      /\ UNCHANGED <<fg, status, waiting, parent>>
  BY DEF ShapeOK, procVars
<1>2. ShapeOK'
  BY <1>1 DEF ShapeOK
<1>3. OneAtATime'
  <2>1. SUFFICES ASSUME Lives(Second)
                 PROVE  /\ parent[Second] = First /\ child[First] = Second
                        /\ \/ /\ status[First] = "ready"
                              /\ place'[First] \in {"handle", "setfg", "waitpid"}
                              /\ place'[Second] \in Early
                              /\ place'[First] = "handle" => cmd'[First].bg = FALSE
                           \/ /\ status[First] = "blocked" /\ place'[First] = "clear"
                              /\ waiting[First] = Second
    BY <1>1 DEF OneAtATime, Lives
  <2>2. parent[Second] = First /\ child[First] = Second
    BY <2>1 DEF Untoggled, OneAtATime
  <2>3. CASE s = First
    <3>1. place[First] \in {"handle", "setfg", "waitpid"} /\ place[Second] \in Early
      BY <2>1, <2>3, BothRun
    <3>2. from = "handle" /\ to = "setfg"
      BY <2>1, <2>3, <3>1, BothRun DEF Early
    <3>. QED
      BY <1>1, <2>2, <2>3, <3>1, <3>2, TwoShells
  <2>4. CASE s = Second /\ status[First] = "ready"
    <3>1. /\ place[First] \in {"handle", "setfg", "waitpid"} /\ place[Second] \in Early
          /\ place[First] = "handle" => cmd[First].bg = FALSE
      BY <2>1, <2>4, TwoShells DEF Untoggled, OneAtATime
    <3>2. ~ Settled(s)
      BY <2>4, <3>1, TwoShells DEF Settled
    <3>3. from \in Early /\ to \in Early
      BY <2>4, <3>1, <3>2 DEF Early
    <3>4. cmd'[First] = cmd[First]
      BY <2>4, TwoShells
    <3>. QED
      BY <1>1, <2>2, <2>4, <3>1, <3>3, <3>4, TwoShells
  <2>5. CASE s = Second /\ status[First] # "ready"
    BY <1>1, <2>1, <2>2, <2>5, TwoShells DEF Untoggled, OneAtATime
  <2>. QED
    BY <2>3, <2>4, <2>5, TwoShells
<1>4. Kinship'
  <2>1. status[Second] = "unborn" => s # Second
    BY TwoShells
  <2>. QED
    BY <1>1, <2>1, TwoShells DEF Untoggled, Kinship
<1>5. HomeIsForeground'
  <2>1. ASSUME NEW t \in Shells, status[t] = "ready"
        PROVE  /\ place'[t] \in AtHome => fg \in {t, NoProcess}
               /\ place'[t] = "handle" /\ flag => fg \in {t, NoProcess}
    <3>1. CASE t = s
      BY <1>1, <2>1, <3>1 DEF Untoggled, HomeIsForeground
    <3>2. CASE t # s
      BY <1>1, <2>1, <3>2 DEF Untoggled, HomeIsForeground
    <3>. QED
      BY <3>1, <3>2
  <2>. QED
    BY <1>1, <2>1 DEF HomeIsForeground
<1>6. FlagIsRight'
  <2>1. ASSUME NEW t \in Shells, status[t] = "ready", place'[t] \in {"run", "handle"}
        PROVE  flag = cmd'[t].bg
    <3>1. t # s /\ place[t] \in {"run", "handle"}
      BY <1>1, <2>1
    <3>. QED
      BY <2>1, <3>1 DEF Untoggled, FlagIsRight
  <2>. QED
    BY <1>1, <2>1 DEF FlagIsRight
<1>. QED
  BY <1>2, <1>3, <1>4, <1>5, <1>6 DEF Untoggled

(* A shell gives the foreground away or takes it.                          *)
LEMMA ForegroundMoves ==
    ASSUME ShellAssumption, ShapeOK, Untoggled, NEW s \in Shells,
           NEW from, NEW to \in Steps,
           status[s] = "ready", place[s] = from, place' = [place EXCEPT ![s] = to],
           UNCHANGED <<status, waiting, parent, cmd, child, flag, toggled>>,
           \/ from = "start" /\ to = "loop" /\ fg' = s
           \/ from = "setfg" /\ to = "waitpid" /\ (Lives(child[s]) => fg' = child[s])
           \/ from = "clear" /\ to = "setself"
           \/ from = "setself" /\ to = "reset" /\ fg' = s
    PROVE  ShapeOK' /\ Untoggled'
<1>1. place'[s] = to /\ \A t \in Shells \ {s} : place'[t] = place[t]
  BY DEF ShapeOK
<1>2. ShapeOK'
  BY <1>1 DEF ShapeOK
<1>3. OneAtATime'
  <2>1. SUFFICES ASSUME Lives(Second)
                 PROVE  /\ parent[Second] = First /\ child[First] = Second
                        /\ \/ /\ status[First] = "ready"
                              /\ place'[First] \in {"handle", "setfg", "waitpid"}
                              /\ place'[Second] \in Early
                              /\ place'[First] = "handle" => cmd[First].bg = FALSE
                           \/ /\ status[First] = "blocked" /\ place'[First] = "clear"
                              /\ waiting[First] = Second
    BY DEF OneAtATime, Lives
  <2>2. parent[Second] = First /\ child[First] = Second
    BY <2>1 DEF Untoggled, OneAtATime
  <2>3. CASE s = First
    <3>1. from = "setfg" /\ to = "waitpid" /\ place[Second] \in Early
      BY <2>1, <2>3, BothRun
    <3>. QED
      BY <1>1, <2>2, <2>3, <3>1, TwoShells
  <2>4. CASE s = Second /\ status[First] = "ready"
    <3>1. /\ place[First] \in {"handle", "setfg", "waitpid"} /\ place[Second] \in Early
          /\ place[First] = "handle" => cmd[First].bg = FALSE
      BY <2>1, <2>4, TwoShells DEF Untoggled, OneAtATime
    <3>2. to \in Early
      BY <2>4, <3>1 DEF Early
    <3>. QED
      BY <1>1, <2>2, <2>4, <3>1, <3>2, TwoShells
  <2>5. CASE s = Second /\ status[First] # "ready"
    BY <1>1, <2>1, <2>2, <2>5, TwoShells DEF Untoggled, OneAtATime
  <2>. QED
    BY <2>3, <2>4, <2>5, TwoShells
<1>4. Kinship'
  <2>1. status[Second] = "unborn" => s # Second
    BY TwoShells
  <2>. QED
    BY <1>1, <2>1, TwoShells DEF Untoggled, Kinship
<1>5. HomeIsForeground'
  <2>1. ASSUME NEW t \in Shells, status[t] = "ready"
        PROVE  /\ place'[t] \in AtHome => fg' \in {t, NoProcess}
               /\ place'[t] = "handle" /\ flag => fg' \in {t, NoProcess}
    <3>1. CASE t = s
      BY <1>1, <2>1, <3>1 DEF AtHome
    <3>2. CASE t # s /\ s = First
      <4>1. Lives(Second) /\ t = Second
        BY <2>1, <3>2, TwoShells DEF Lives
      <4>2. /\ place[First] \in {"handle", "setfg", "waitpid"} /\ place[Second] \in Early
            /\ child[First] = Second
        BY <3>2, <4>1, BothRun
      <4>3. fg' = Second
        BY <3>2, <4>1, <4>2
      <4>. QED
        BY <4>1, <4>3
    <3>3. CASE t # s /\ s = Second
      <4>1. Lives(Second) /\ t = First
        BY <2>1, <3>3, TwoShells DEF Lives
      <4>2. /\ place[First] \in {"handle", "setfg", "waitpid"}
            /\ place[First] = "handle" => flag = FALSE
        BY <2>1, <4>1, BothRun
      <4>. QED
        BY <1>1, <3>3, <4>1, <4>2, TwoShells DEF AtHome
    <3>. QED
      BY <3>1, <3>2, <3>3, TwoShells
  <2>. QED
    BY <2>1 DEF HomeIsForeground
<1>6. FlagIsRight'
  <2>1. ASSUME NEW t \in Shells, status[t] = "ready", place'[t] \in {"run", "handle"}
        PROVE  flag = cmd[t].bg
    BY <1>1, <2>1 DEF Untoggled, FlagIsRight
  <2>. QED
    BY <2>1 DEF FlagIsRight
<1>. QED
  BY <1>2, <1>3, <1>4, <1>5, <1>6 DEF Untoggled

(* The flag is set before a command and reset after it.                    *)
LEMMA FlagMoves ==
    ASSUME ShellAssumption, ShapeOK, Untoggled, NEW s \in Shells, Parse(s) \/ Reset(s)
    PROVE  ShapeOK' /\ Untoggled'
<1>1. /\ status[s] = "ready" /\ UNCHANGED <<fg, status, waiting, parent, cmd, toggled>>
      /\ \/ place[s] = "parse" /\ place' = [place EXCEPT ![s] = "run"] /\ flag' = cmd[s].bg
         \/ place[s] = "reset" /\ place' = [place EXCEPT ![s] = "pop"]
      /\ child' \in [Shells -> Procs \cup {NoProcess}]
      /\ \A t \in Shells \ {s} : child'[t] = child[t]
  BY DEF Parse, Reset, Stands, GoesTo, procVars, ShapeOK
<1>2. /\ \A t \in Shells \ {s} : place'[t] = place[t]
      /\ place'[s] \in {"run", "pop"}
      /\ place'[s] = "run" => flag' = cmd[s].bg
  BY <1>1 DEF ShapeOK
<1>3. \A t \in Shells \ {s} : status[t] # "ready"
  BY <1>1, Alone, TwoShells DEF Early, Lives
<1>4. ShapeOK'
  BY <1>1 DEF ShapeOK, Steps
<1>5. OneAtATime'
  <2>1. s = First => ~ Lives(Second)
    BY <1>1, Alone DEF Early
  <2>2. s = Second =>
           status[First] = "blocked" /\ place[First] = "clear" /\ waiting[First] = Second
    BY <1>1, Alone DEF Early
  <2>. QED
    BY <1>1, <1>2, <2>1, <2>2, TwoShells DEF Untoggled, OneAtATime, Lives
<1>6. Kinship'
  <2>1. status[Second] = "unborn" => s # Second
    BY <1>1, TwoShells
  <2>. QED
    BY <1>1, <1>2, <2>1, TwoShells DEF Untoggled, Kinship
<1>7. HomeIsForeground'
  <2>1. fg \in {s, NoProcess}
    BY <1>1 DEF Untoggled, HomeIsForeground, AtHome
  <2>. QED
    BY <1>1, <1>2, <1>3, <2>1 DEF HomeIsForeground
<1>8. FlagIsRight'
  <2>1. ASSUME NEW t \in Shells, status'[t] = "ready", place'[t] \in {"run", "handle"}
        PROVE  flag' = cmd'[t].bg
    <3>1. t = s
      BY <1>1, <1>3, <2>1
    <3>2. place'[s] = "run"
      BY <1>2, <2>1, <3>1
    <3>3. flag' = cmd[s].bg
      BY <1>2, <3>2
    <3>. QED
      BY <1>1, <3>1, <3>3
  <2>. QED
    BY <2>1 DEF FlagIsRight
<1>. QED
  BY <1>4, <1>5, <1>6, <1>7, <1>8 DEF Untoggled

(* A launch hands the flag and the foreground to the job.                  *)
LEMMA SpawnKeeps ==
    ASSUME ShellAssumption, ShapeOK, Untoggled, NEW s \in Shells, Spawn(s)
    PROVE  ShapeOK' /\ Untoggled'
<1>1. PICK p \in Procs :
         /\ CanCreate(s, p)
         /\ status' = [status EXCEPT ![p] = "ready"]
         /\ parent' = [parent EXCEPT ![p] = s]
         /\ child' = [child EXCEPT ![s] = p]
         /\ fg' = IF flag THEN fg ELSE p
  BY DEF Spawn
<1>2. /\ status[s] = "ready" /\ place[s] = "run" /\ place' = [place EXCEPT ![s] = "handle"]
      /\ UNCHANGED <<waiting, cmd, flag, toggled>>
  BY DEF Spawn, Stands, GoesTo, globals
<1>3. /\ place'[s] = "handle" /\ \A t \in Shells \ {s} : place'[t] = place[t]
      /\ status'[p] = "ready" /\ \A q \in Procs \ {p} : status'[q] = status[q]
      /\ parent'[p] = s /\ \A q \in Procs \ {p} : parent'[q] = parent[q]
      /\ child'[s] = p /\ \A t \in Shells \ {s} : child'[t] = child[t]
  BY <1>1, <1>2 DEF ShapeOK
<1>4. p # First /\ p # s /\ status[p] = "unborn"
  BY <1>1, <1>2 DEF CanCreate, Untoggled, Kinship
<1>5. p = Second => s = First /\ cmd[s].bg = FALSE /\ place[Second] = "start"
  <2>1. ASSUME p = Second
        PROVE  cmd[s].bg = FALSE
    <3>1. ~ cmd[s].bg /\ cmd[s].bg \in BOOLEAN
      BY <1>1, <2>1, TwoShells DEF CanCreate, ShapeOK
    <3>. QED
      BY <3>1
  <2>2. ASSUME p = Second
        PROVE  s = First /\ place[Second] = "start"
    BY <1>4, <2>2, TwoShells DEF Untoggled, Kinship
  <2>. QED
    BY <2>1, <2>2
<1>6. \A t \in Shells \ {s} : status[t] # "ready"
  BY <1>2, Alone, TwoShells DEF Early, Lives
<1>7. ShapeOK'
  <2>1. place' \in [Shells -> Steps]
    BY <1>2 DEF ShapeOK, Steps
  <2>2. /\ parent' \in [Procs -> Procs \cup {NoProcess}]
        /\ child' \in [Shells -> Procs \cup {NoProcess}]
    BY <1>1, TwoShells DEF ShapeOK
  <2>. QED
    BY <1>1, <1>2, <2>1, <2>2 DEF ShapeOK
<1>8. OneAtATime'
  <2>1. CASE p = Second
    <3>1. parent'[Second] = First /\ child'[First] = Second
      BY <1>3, <1>5, <2>1
    <3>2. /\ status'[First] = "ready" /\ place'[First] = "handle"
          /\ place'[Second] = "start" /\ cmd'[First].bg = FALSE
      BY <1>2, <1>3, <1>4, <1>5, <2>1, TwoShells
    <3>. QED
      BY <3>1, <3>2 DEF OneAtATime, Early
  <2>2. CASE p # Second
    <3>1. s = First => ~ Lives(Second)
      BY <1>2, Alone DEF Early
    <3>2. s = Second =>
           status[First] = "blocked" /\ place[First] = "clear" /\ waiting[First] = Second
      BY <1>2, Alone DEF Early
    <3>3. Lives(Second)' <=> Lives(Second)
      BY <1>3, <2>2, TwoShells DEF Lives
    <3>. QED
      BY <1>2, <1>3, <1>4, <2>2, <3>1, <3>2, <3>3, TwoShells DEF Untoggled, OneAtATime
  <2>. QED
    BY <2>1, <2>2
<1>9. Kinship'
  <2>1. parent'[First] = NoProcess /\ status'[First] # "unborn"
    BY <1>3, <1>4, TwoShells DEF Untoggled, Kinship
  <2>2. status'[Second] = "unborn" => place'[Second] = "start"
    BY <1>2, <1>3, <1>5, TwoShells DEF Untoggled, Kinship
  <2>3. \A t \in Shells : status'[t] = "blocked" => place'[t] = "clear"
    BY <1>2, <1>3, <1>4, TwoShells DEF Untoggled, Kinship
  <2>. QED
    BY <2>1, <2>2, <2>3 DEF Kinship
<1>10. HomeIsForeground'
  <2>1. place'[s] \notin AtHome /\ (flag => fg' \in {s, NoProcess})
    BY <1>1, <1>2, <1>3 DEF AtHome, Untoggled, HomeIsForeground
  <2>2. \A t \in Shells \ {s} : status'[t] = "ready" => t = Second /\ place'[t] = "start"
    BY <1>3, <1>4, <1>5, <1>6, TwoShells
  <2>3. "start" \notin AtHome
    BY DEF AtHome
  <2>. QED
    BY <1>2, <2>1, <2>2, <2>3 DEF HomeIsForeground
<1>11. FlagIsRight'
  <2>1. flag = cmd[s].bg
    BY <1>2 DEF Untoggled, FlagIsRight
  <2>2. \A t \in Shells \ {s} : status'[t] = "ready" => place'[t] = "start"
    BY <1>3, <1>4, <1>5, <1>6, TwoShells
  <2>. QED
    BY <1>2, <2>1, <2>2 DEF FlagIsRight
<1>. QED
  BY <1>7, <1>8, <1>9, <1>10, <1>11 DEF Untoggled

(* The shell that waits gives the place to its job.                        *)
LEMMA WaitChildKeeps ==
    ASSUME ShellAssumption, ShapeOK, Untoggled, NEW s \in Shells, WaitChild(s)
    PROVE  ShapeOK' /\ Untoggled'
<1>1. /\ status[s] = "ready" /\ place[s] = "waitpid"
      /\ place' = [place EXCEPT ![s] = "clear"]
      /\ UNCHANGED <<fg, parent, cmd, child, flag, toggled>>
      /\ IF Lives(child[s])
         THEN /\ waiting' = [waiting EXCEPT ![s] = child[s]]
              /\ status' = [status EXCEPT ![s] = "blocked"]
         ELSE UNCHANGED <<status, waiting>>
  BY DEF WaitChild, Stands, GoesTo, others, globals
<1>2. /\ place'[s] = "clear" /\ \A t \in Shells \ {s} : place'[t] = place[t]
      /\ \A q \in Procs \ {s} : status'[q] = status[q] /\ waiting'[q] = waiting[q]
      /\ status'[s] \in {"ready", "blocked"}
      /\ Lives(child[s]) => status'[s] = "blocked" /\ waiting'[s] = child[s]
  BY <1>1, TwoShells DEF ShapeOK
<1>3. ShapeOK'
  <2>1. place' \in [Shells -> Steps]
    BY <1>1 DEF ShapeOK, Steps
  <2>2. status' \in [Procs -> {"unborn", "ready", "blocked", "dead"}]
    BY <1>1 DEF ShapeOK
  <2>3. waiting' \in [Procs -> Procs \cup {NoProcess}]
    BY <1>1 DEF ShapeOK
  <2>. QED
    BY <1>1, <2>1, <2>2, <2>3 DEF ShapeOK
<1>4. OneAtATime'
  <2>1. CASE s = First /\ Lives(Second)
    <3>1. child[First] = Second /\ parent[Second] = First
      BY <2>1 DEF Untoggled, OneAtATime
    <3>2. /\ status'[First] = "blocked" /\ waiting'[First] = Second
          /\ place'[First] = "clear"
      BY <1>2, <2>1, <3>1
    <3>. QED
      BY <1>1, <3>1, <3>2 DEF OneAtATime
  <2>2. CASE s = First /\ ~ Lives(Second)
    BY <1>2, <2>2, TwoShells DEF OneAtATime, Lives
  <2>3. CASE s = Second
    <3>1. status[First] = "blocked" /\ place[First] = "clear" /\ waiting[First] = Second
      BY <1>1, <2>3, Alone DEF Early
    <3>2. Lives(Second)
      BY <1>1, <2>3 DEF Lives
    <3>. QED
      BY <1>1, <1>2, <2>3, <3>1, <3>2, TwoShells DEF Untoggled, OneAtATime
  <2>. QED
    BY <2>1, <2>2, <2>3, TwoShells
<1>5. Kinship'
  BY <1>1, <1>2, TwoShells DEF Untoggled, Kinship
<1>6. HomeIsForeground'
  <2>1. place'[s] \notin AtHome /\ place'[s] # "handle"
    BY <1>2 DEF AtHome
  <2>2. \A t \in Shells \ {s} : status'[t] = status[t] /\ place'[t] = place[t]
    BY <1>2, TwoShells
  <2>. QED
    BY <1>1, <2>1, <2>2 DEF Untoggled, HomeIsForeground
<1>7. FlagIsRight'
  <2>2. \A t \in Shells \ {s} : status'[t] = status[t] /\ place'[t] = place[t]
    BY <1>2, TwoShells
  <2>. QED
    BY <1>1, <1>2, <2>2 DEF Untoggled, FlagIsRight
<1>. QED
  BY <1>3, <1>4, <1>5, <1>6, <1>7 DEF Untoggled

(* Every step of a shell that nobody was blocked or unblocked in by the    *)
(* user.                                                                   *)
LEMMA WorkKeeps ==
    ASSUME ShellAssumption, ShapeOK, Untoggled, NEW s \in Shells, Works(s), ~ toggled'
    PROVE  ShapeOK' /\ Untoggled'
<1>1. CASE Starts(s)
  BY <1>1, ForegroundMoves DEF Starts, Stands, GoesTo, others, globals, Steps
<1>2. CASE LooksAtForeground(s)
  <2>1. PICK to \in {"reading", "away"} : place' = [place EXCEPT ![s] = to]
    BY <1>2 DEF LooksAtForeground, GoesTo
  <2>2. /\ status[s] = "ready" /\ place[s] = "loop"
        /\ UNCHANGED <<procVars, cmd, child, flag, toggled>>
    BY <1>2 DEF LooksAtForeground, Stands, globals
  <2>3. /\ to \in Steps /\ to \in Early /\ "loop" \in Early /\ "loop" \in AtHome
        /\ to \notin {"handle", "run", "start"}
    BY DEF Steps, Early, AtHome
  <2>4. cmd' \in [Shells -> [kind : Kinds, bg : BOOLEAN]]
    BY <2>2 DEF ShapeOK
  <2>. QED
    BY <2>1, <2>2, <2>3, <2>4, WalkKeeps
<1>3. CASE Away(s) \/ FindsNoKey(s)
  <2>1. /\ status[s] = "ready" /\ place[s] \in {"away", "reading"}
        /\ place' = [place EXCEPT ![s] = "loop"]
        /\ UNCHANGED <<procVars, cmd, child, flag, toggled>>
    BY <1>3 DEF Away, FindsNoKey, Stands, GoesTo, globals, others
  <2>2. /\ "loop" \in Steps /\ place[s] \in Early /\ "loop" \in Early
        /\ place[s] \in AtHome
    BY <2>1 DEF Steps, Early, AtHome
  <2>3. cmd' \in [Shells -> [kind : Kinds, bg : BOOLEAN]]
    BY <2>1 DEF ShapeOK
  <2>. QED
    BY <2>1, <2>2, <2>3, WalkKeeps
<1>4. CASE Parse(s) \/ Reset(s)
  BY <1>4, FlagMoves
<1>5. CASE NothingToWaitFor(s) \/ BlockRefused(s)
  <2>1. /\ status[s] = "ready" /\ place[s] = "run"
        /\ place' = [place EXCEPT ![s] = "reset"]
        /\ UNCHANGED <<procVars, cmd, child, flag, toggled>>
    BY <1>5 DEF NothingToWaitFor, BlockRefused, Stands, GoesTo, globals, others
  <2>2. "reset" \in Steps /\ "run" \in AtHome
    BY DEF Steps, AtHome
  <2>3. cmd' \in [Shells -> [kind : Kinds, bg : BOOLEAN]]
    BY <2>1 DEF ShapeOK
  <2>. QED
    BY <2>1, <2>2, <2>3, WalkKeeps
<1>6. CASE Spawn(s)
  BY <1>6, SpawnKeeps
<1>7. CASE RunKill(s)
  <2>1. /\ status[s] = "ready" /\ place[s] = "run"
        /\ place' = [place EXCEPT ![s] = "reset"]
        /\ UNCHANGED <<cmd, child, flag, toggled>>
    BY <1>7 DEF RunKill, Stands, GoesTo, globals, others
  <2>2. PICK p \in Procs : kill_process(p)
    BY <1>7 DEF RunKill
  <2>3. p # NoProcess
    BY TwoShells
  <2>. QED
    BY <2>1, <2>2, <2>3, ShellKillKeeps
<1>8. CASE RunBlock(s)
  BY <1>8 DEF RunBlock
<1>9. CASE RunExit(s)
  <2>1. /\ status[s] = "ready" /\ place[s] = "run"
        /\ place' = [place EXCEPT ![s] = "reset"]
        /\ UNCHANGED <<cmd, child, flag, toggled>>
        /\ exit_current_process(s)
    BY <1>9 DEF RunExit, Stands, GoesTo, globals, others
  <2>2. s = First => ~ Lives(Second)
    BY <2>1, Alone DEF Early
  <2>3. s \in Procs
    BY TwoShells
  <2>. QED
    BY <2>1, <2>2, <2>3, ExitKeeps
<1>10. CASE Remember(s)
  <2>1. /\ status[s] = "ready" /\ place[s] = "handle" /\ flag
        /\ place' = [place EXCEPT ![s] = "reset"]
        /\ UNCHANGED <<procVars, cmd, child, flag, toggled>>
    BY <1>10 DEF Remember, Stands, GoesTo
  <2>2. "reset" \in Steps
    BY DEF Steps
  <2>3. cmd' \in [Shells -> [kind : Kinds, bg : BOOLEAN]]
    BY <2>1 DEF ShapeOK
  <2>. QED
    BY <2>1, <2>2, <2>3, WalkKeeps
<1>11. CASE WillWait(s)
  <2>1. /\ status[s] = "ready" /\ place[s] = "handle"
        /\ place' = [place EXCEPT ![s] = "setfg"]
        /\ UNCHANGED <<procVars, cmd, child, flag, toggled>>
    BY <1>11 DEF WillWait, Stands, GoesTo, others, globals
  <2>2. "setfg" \in Steps /\ "setfg" \notin AtHome
    BY DEF Steps, AtHome
  <2>3. cmd' \in [Shells -> [kind : Kinds, bg : BOOLEAN]]
    BY <2>1 DEF ShapeOK
  <2>. QED
    BY <2>1, <2>2, <2>3, WalkKeeps
<1>12. CASE SetForeground(s, child[s], "setfg", "waitpid")
  BY <1>12, ForegroundMoves DEF SetForeground, Stands, GoesTo, others, globals, Steps
<1>13. CASE WaitChild(s)
  BY <1>13, WaitChildKeeps
<1>14. CASE ClearForeground(s)
  BY <1>14, ForegroundMoves DEF ClearForeground, Stands, GoesTo, others, globals, Steps
<1>15. CASE BackToSelf(s)
  <2>1. Lives(s)
    BY <1>15 DEF BackToSelf, SetForeground, Stands, Lives
  <2>. QED
    BY <1>15, <2>1, ForegroundMoves
    DEF BackToSelf, SetForeground, Stands, GoesTo, others, globals, Steps
<1>16. CASE Pop(s) \/ Notify(s)
  <2>1. PICK to \in {"notify", "loop"} : place' = [place EXCEPT ![s] = to]
    BY <1>16 DEF Pop, Notify, GoesTo
  <2>2. /\ status[s] = "ready" /\ place[s] \in {"pop", "notify"}
        /\ UNCHANGED <<procVars, cmd, child, flag, toggled>>
    BY <1>16 DEF Pop, Notify, Stands, globals
  <2>3. /\ to \in Steps /\ place[s] \in AtHome /\ to \notin {"handle", "run", "start"}
    BY <2>2 DEF Steps, AtHome
  <2>4. cmd' \in [Shells -> [kind : Kinds, bg : BOOLEAN]]
    BY <2>2 DEF ShapeOK
  <2>. QED
    BY <2>1, <2>2, <2>3, <2>4, WalkKeeps
<1>. QED
  BY <1>1, <1>2, <1>3, <1>4, <1>5, <1>6, <1>7, <1>8, <1>9, <1>10, <1>11, <1>12,
     <1>13, <1>14,
     <1>15, <1>16 DEF Works

(* A key is taken at the prompt of the shell of the foreground.            *)
LEMMA TakesKeyKeeps ==
    ASSUME ShellAssumption, ShapeOK, Untoggled, NEW s \in Shells, TakesKey(s)
    PROVE  ShapeOK' /\ Untoggled'
<1>1. /\ status[s] = "ready" /\ place[s] = "reading" /\ Settled(s)
      /\ place' = [place EXCEPT ![s] = "parse"]
      /\ UNCHANGED <<procVars, child, flag, toggled>>
  BY DEF TakesKey, Stands, GoesTo, globals
<1>2. PICK c \in [kind : Kinds, bg : BOOLEAN] : cmd' = [cmd EXCEPT ![s] = c]
  BY DEF TakesKey
<1>3. /\ cmd' \in [Shells -> [kind : Kinds, bg : BOOLEAN]]
      /\ \A t \in Shells : cmd'[t] = cmd[t] \/ t = s
  BY <1>2 DEF ShapeOK
<1>4. "parse" \in Steps /\ "reading" \in AtHome
  BY DEF Steps, AtHome
<1>. QED
  BY <1>1, <1>3, <1>4, WalkKeeps

(* Every step but the block of a shell keeps the two shells apart.         *)
LEMMA ShellStep ==
    ASSUME ShellAssumption, ShapeOK, Untoggled, [ShellNext]_shellVars, ~ toggled'
    PROVE  ShapeOK' /\ Untoggled'
<1>1. ASSUME NEW s \in Shells, Works(s) \/ TakesKey(s)
      PROVE  ShapeOK' /\ Untoggled'
  BY <1>1, WorkKeeps, TakesKeyKeeps
<1>2. ASSUME NEW j \in Jobs, JobEnds(j)
      PROVE  ShapeOK' /\ Untoggled'
  <2>1. j \in Procs /\ j # First
    BY TwoShells DEF Procs
  <2>2. exit_current_process(j) /\ place' = place /\ UNCHANGED <<cmd, child, flag, toggled>>
    BY <1>2 DEF JobEnds, others, globals
  <2>3. First \in Shells
    BY TwoShells
  <2>. QED
    BY <2>1, <2>2, <2>3, ExitKeeps
<1>3. CASE CtrlC
  <2>1. /\ fg # NoProcess /\ kill_process(fg) /\ place' = place
        /\ UNCHANGED <<cmd, child, flag, toggled>>
    BY <1>3 DEF CtrlC, others, globals
  <2>2. First \in Shells
    BY TwoShells
  <2>. QED
    BY <2>1, <2>2, ShellKillKeeps
<1>4. CASE UNCHANGED shellVars
  BY <1>4 DEF shellVars, procVars, globals, ShapeOK, Untoggled, OneAtATime, Lives, Kinship,
              HomeIsForeground, FlagIsRight
<1>. QED
  BY <1>1, <1>2, <1>3, <1>4 DEF ShellNext

\* The user does not take a block back.
LEMMA ToggledStays ==
    ASSUME [ShellNext]_shellVars, toggled
    PROVE  toggled'
<1>1. UNCHANGED toggled \/ toggled' = TRUE
  <2>1. ASSUME NEW s \in Shells, Works(s) \/ TakesKey(s)
        PROVE  UNCHANGED toggled \/ toggled' = TRUE
    BY <2>1 DEF Works, TakesKey, Starts, LooksAtForeground, Away, FindsNoKey, Parse,
                NothingToWaitFor, Spawn, RunKill, RunBlock, BlockRefused, RunExit, Remember,
                WillWait, SetForeground, WaitChild, ClearForeground, BackToSelf, Reset, Pop,
                Notify, others
  <2>2. ASSUME NEW j \in Jobs, JobEnds(j)
        PROVE  UNCHANGED toggled
    BY <2>2 DEF JobEnds, others
  <2>3. CASE CtrlC \/ UNCHANGED shellVars
    BY <2>3 DEF CtrlC, others, shellVars
  <2>. QED
    BY <2>1, <2>2, <2>3 DEF ShellNext
<1>. QED
  BY <1>1

(* The first shell at its prompt.                                          *)
LEMMA ShellBegins ==
    ASSUME ShellAssumption, ShellInit
    PROVE  ShellInv
<1>1. ShapeOK
  BY TwoShells DEF ShellInit, ShapeOK, Steps, NoCommand, Kinds
<1>2. status[Second] = "unborn" /\ status[First] = "ready"
  BY TwoShells DEF ShellInit
<1>3. \A s \in Shells : place[s] = "start" /\ status[s] # "blocked"
  BY TwoShells DEF ShellInit
<1>4. parent[First] = NoProcess
  BY TwoShells DEF ShellInit
<1>5. Untoggled
  BY <1>2, <1>3, <1>4, TwoShells
  DEF Untoggled, OneAtATime, Lives, Kinship, HomeIsForeground, FlagIsRight, AtHome
<1>. QED
  BY <1>1, <1>5 DEF ShellInv

(* A command runs in the mode its own line asked for (command_context.c),  *)
(* as long as the user does not run block on a shell and types only when   *)
(* the other shell has come to rest, for any set of jobs.                  *)
THEOREM CommandsKeepTheirMode ==
    ASSUME ShellAssumption
    PROVE  ShellSpec => []ModeIsTheCommands
<1>1. ShellInit => ShellInv
  BY ShellBegins
<1>2. ShellInv /\ [ShellNext]_shellVars => ShellInv'
  BY ShellStep, ToggledStays DEF ShellInv
<1>3. ShellInv => ModeIsTheCommands
  BY DEF ShellInv, Untoggled, FlagIsRight, ModeIsTheCommands, Stands
<1>. QED
  BY <1>1, <1>2, <1>3, PTL DEF ShellSpec

(* A shell that takes a key has the foreground, or nobody has              *)
(* (terminal.c), under the same two conditions.                            *)
THEOREM KeysAreOfTheForeground ==
    ASSUME ShellAssumption
    PROVE  ShellSpec => KeysGoToTheForeground
<1> DEFINE Fair == \A s \in Shells :
              ~ toggled /\ place[s] = "reading" /\ place'[s] = "parse" =>
                fg \in {s, NoProcess}
<1>1. ShellInit => ShellInv
  BY ShellBegins
<1>2. ShellInv /\ [ShellNext]_shellVars => ShellInv'
  BY ShellStep, ToggledStays DEF ShellInv
<1>3. ShellInv /\ [ShellNext]_shellVars => [Fair]_shellVars
  <2>1. SUFFICES ASSUME ShellInv, ShellNext, NEW s \in Shells, ~ toggled,
                        place[s] = "reading", place'[s] = "parse"
                 PROVE  fg \in {s, NoProcess}
    OBVIOUS
  <2>2. ShapeOK /\ Untoggled
    BY <2>1 DEF ShellInv
  <2>3. \A t \in Shells : \A to : GoesTo(t, to) => to = "parse" \/ place'[s] # "parse"
    BY <2>1, <2>2 DEF GoesTo, ShapeOK
  <2>4. \E t \in Shells : TakesKey(t)
    <3>1. ASSUME NEW t \in Shells, Works(t)
          PROVE  FALSE
      <4>1. \E to \in Steps \ {"parse"} : GoesTo(t, to)
        BY <3>1 DEF Works, Starts, LooksAtForeground, Away, FindsNoKey, Parse,
                NothingToWaitFor, Spawn, RunKill, RunBlock, BlockRefused, RunExit, Remember,
                WillWait, SetForeground, WaitChild, ClearForeground, BackToSelf, Reset, Pop,
                Notify, Steps
      <4>. QED
        BY <2>1, <2>3, <4>1
    <3>2. ASSUME place' = place
          PROVE  FALSE
      BY <2>1, <3>2
    <3>3. (\E j \in Jobs : JobEnds(j)) \/ CtrlC => place' = place
      BY DEF JobEnds, CtrlC
    <3>. QED
      BY <2>1, <3>1, <3>2, <3>3 DEF ShellNext
  <2>5. PICK t \in Shells : TakesKey(t)
    BY <2>4
  <2>6. /\ status[t] = "ready" /\ place[t] = "reading"
        /\ place' = [place EXCEPT ![t] = "parse"]
    BY <2>5 DEF TakesKey, Stands, GoesTo
  <2>7. t = s
    BY <2>1, <2>2, <2>6 DEF ShapeOK
  <2>. QED
    BY <2>2, <2>6, <2>7 DEF Untoggled, HomeIsForeground, AtHome
<1>. QED
  BY <1>1, <1>2, <1>3, PTL DEF ShellSpec, KeysGoToTheForeground

---------------------------------------------------------------------------
(* The timer.  A tick is not counted when the interrupt is one the program *)
(* raised, but a process that is killed or loses the CPU between setting   *)
(* the flag and raising it makes a real tick pass for one of those.  The   *)
(* ticks that are missing are counted by the processes that are held there *)
(* (TickInv), so that a sleep is late by no more than them.                *)

\* The machine has not been up for as long as an int can count, and every sleep
\* that is asked for would end before.
IntsSuffice ==
    /\ MaxReal <= INT_MAX
    /\ \A segs \in Secs : MaxReal + AtLeastOne(segs) * PerSecond <= INT_MAX

\* The processes that have set the flag and not raised their interrupt yet, or never
\* will.
Held == {p \in Proc : doing[p] \in {"forcing", "struck"}}

Flagged == IF manual THEN 1 ELSE 0

\* The flag is that of the process that has the CPU.  For each process that is held
\* somebody's timer interrupt went uncounted, but for the one whose flag is still up.
TickInv ==
    /\ ticks \in Nat /\ real \in 0 .. MaxReal /\ manual \in BOOLEAN
    /\ doing \in [Proc -> Points]
    /\ current \in Living
    /\ manual => doing[current] = "forcing"
    /\ real + Flagged = ticks + Cardinality(Held)

\* A sleeper has noted the counter and how long to sleep.
SleeperInv(p) ==
    /\ current_ticks[p] \in Nat /\ asked[p].at \in Nat /\ time[p] \in Nat
    /\ current_ticks[p] <= asked[p].at /\ asked[p].at <= real
    /\ asked[p].at + 1 <= current_ticks[p] + Cardinality(Proc)
    /\ time[p] = asked[p].secs * PerSecond
    /\ MaxReal + time[p] <= INT_MAX

SleepInv ==
    /\ current_ticks \in [Proc -> Int] /\ time \in [Proc -> Int]
    /\ asked \in [Proc -> [secs : Int, at : Nat]]
    /\ \A p \in Proc : doing[p] = "asleep" => SleeperInv(p)

(* Small numbers are what they are in every width.                         *)
LEMMA SmallNumbers ==
    ASSUME TimerAssumption, NEW n \in Nat, n <= INT_MAX
    PROVE  AsInt(n) = n /\ AsLong(n) = n
<1>1. INT_MAX \in Nat /\ ULONG_MAX \in Nat /\ ULONG_MAX > 2 * INT_MAX + 1
  BY DEF TimerAssumption
<1>2. (n + INT_MAX + 1) % (2 * INT_MAX + 2) = n + INT_MAX + 1
  <2> DEFINE a == n + INT_MAX + 1
             m == 2 * INT_MAX + 2
  <2>1. a \in Nat /\ m \in Nat /\ a < m
    BY <1>1
  <2>. HIDE DEF a, m
  <2>2. a % m = a
    BY <2>1
  <2>. QED
    BY <2>2 DEF a, m
<1>3. n % (ULONG_MAX + 1) = n
  <2> DEFINE m == ULONG_MAX + 1
  <2>1. m \in Nat /\ n < m
    BY <1>1
  <2>. HIDE DEF m
  <2>2. n % m = n
    BY <2>1
  <2>. QED
    BY <2>2 DEF m
<1>. QED
  BY <1>1, <1>2, <1>3 DEF AsInt, AsLong

\* What is held is a part of the processes, of which the one with the CPU may not be
\* one.
LEMMA HeldIsBounded ==
    ASSUME TimerAssumption, TickInv
    PROVE  /\ IsFiniteSet(Held) /\ Cardinality(Held) \in Nat
           /\ Cardinality(Proc) \in Nat
           /\ \A p \in Proc \ Held : Cardinality(Held) + 1 <= Cardinality(Proc)
           /\ \A p \in Proc : doing[p] \in {"forcing", "struck"} => Cardinality(Held) >= 1
<1>1. IsFiniteSet(Proc) /\ Held \subseteq Proc
  BY DEF TimerAssumption, Held
<1>2. IsFiniteSet(Held) /\ Cardinality(Held) \in Nat /\ Cardinality(Proc) \in Nat
  BY <1>1, FS_Subset, FS_CardinalityType
<1>3. ASSUME NEW p \in Proc \ Held
      PROVE  Cardinality(Held) + 1 <= Cardinality(Proc)
  <2>1. IsFiniteSet(Proc \ {p}) /\ Cardinality(Proc \ {p}) = Cardinality(Proc) - 1
    BY <1>1, FS_RemoveElement
  <2>2. Held \subseteq Proc \ {p}
    BY <1>1
  <2>3. Cardinality(Held) <= Cardinality(Proc \ {p})
    BY <2>1, <2>2, FS_Subset
  <2>. QED
    BY <1>2, <2>1, <2>3
<1>4. ASSUME NEW p \in Proc, doing[p] \in {"forcing", "struck"}
      PROVE  Cardinality(Held) >= 1
  <2>1. p \in Held
    BY <1>4 DEF Held
  <2>. QED
    BY <1>2, <2>1, FS_EmptySet
<1>. QED
  BY <1>2, <1>3, <1>4

\* The counter is never ahead of the interrupts.
LEMMA TicksAreBounded ==
    ASSUME TimerAssumption, TickInv
    PROVE  /\ ticks <= real
           /\ \A p \in Proc \ Held : real + 1 <= ticks + Cardinality(Proc)
<1>1. current \in Proc /\ (manual => doing[current] = "forcing")
  BY DEF TickInv, Living
<1>2. manual => Cardinality(Held) >= 1
  BY <1>1, HeldIsBounded
<1>3. real + Flagged = ticks + Cardinality(Held) /\ ticks \in Nat /\ real \in Nat
  BY DEF TickInv
<1>4. Flagged <= Cardinality(Held) /\ Flagged \in 0 .. 1
  BY <1>2, HeldIsBounded DEF Flagged, TickInv
<1>. QED
  BY <1>3, <1>4, HeldIsBounded

(* The interrupt: the flag is taken or the tick counted.                   *)
LEMMA HandlerCounts ==
    ASSUME TimerAssumption, IntsSuffice, TickInv, timer_handler
    PROVE  /\ manual' = FALSE /\ ticks' \in Nat
           /\ ticks' = ticks + 1 - Flagged
<1>1. ticks \in Nat /\ ticks <= INT_MAX
  BY TicksAreBounded DEF TickInv, IntsSuffice, TimerAssumption
<1>2. ticks + 1 \in Nat /\ ticks + 1 <= ULONG_MAX
  BY <1>1 DEF TimerAssumption
<1>3. AsLong(ticks + 1) = ticks + 1
  <2> DEFINE a == ticks + 1
             m == ULONG_MAX + 1
  <2>1. a \in Nat /\ m \in Nat /\ a < m
    BY <1>2 DEF TimerAssumption
  <2>. HIDE DEF a, m
  <2>2. a % m = a
    BY <2>1
  <2>. QED
    BY <2>2 DEF a, m, AsLong
<1>4. CASE manual
  BY <1>1, <1>4 DEF timer_handler, Flagged
<1>5. CASE ~ manual
  BY <1>1, <1>3, <1>5 DEF timer_handler, Flagged, TickInv
<1>. QED
  BY <1>4, <1>5 DEF TickInv

---------------------------------------------------------------------------
(* The flag, step by step *)

\* Who is held stays, when nobody enters or leaves a forced switch.
LEMMA SameHeld ==
    ASSUME NEW p \in Proc, NEW x, doing \in [Proc -> Points],
           doing' = [doing EXCEPT ![p] = x],
           doing[p] \in {"forcing", "struck"} <=> x \in {"forcing", "struck"}
    PROVE  Held' = Held
BY DEF Held

\* One enters, one leaves.
LEMMA HeldChanges ==
    ASSUME TimerAssumption, TickInv, NEW p \in Proc, NEW x,
           doing' = [doing EXCEPT ![p] = x]
    PROVE  /\ p \notin Held /\ x \in {"forcing", "struck"} =>
                 Cardinality(Held') = Cardinality(Held) + 1
           /\ p \in Held /\ x \notin {"forcing", "struck"} =>
                 Cardinality(Held') = Cardinality(Held) - 1
<1>1. doing \in [Proc -> Points] /\ IsFiniteSet(Held)
  BY HeldIsBounded DEF TickInv
<1>2. ASSUME p \notin Held, x \in {"forcing", "struck"}
      PROVE  Cardinality(Held') = Cardinality(Held) + 1
  <2>1. Held' = Held \cup {p}
    BY <1>1, <1>2 DEF Held
  <2>. QED
    BY <1>1, <1>2, <2>1, FS_AddElement
<1>3. ASSUME p \in Held, x \notin {"forcing", "struck"}
      PROVE  Cardinality(Held') = Cardinality(Held) - 1
  <2>1. Held' = Held \ {p}
    BY <1>1, <1>3 DEF Held
  <2>. QED
    BY <1>1, <1>3, <2>1, FS_RemoveElement
<1>. QED
  BY <1>2, <1>3

\* Every other step than Tick leaves real alone, and most of them the counter.
LEMMA TickKeeps ==
    ASSUME TimerAssumption, IntsSuffice, TickInv, Tick
    PROVE  TickInv'
<1>1. real' = real + 1 /\ real' \in 0 .. MaxReal /\ doing' = doing
  BY DEF Tick, TickInv, TimerAssumption
<1>2. manual' = FALSE /\ ticks' \in Nat /\ ticks' = ticks + 1 - Flagged
  BY HandlerCounts DEF Tick
<1>3. Held' = Held /\ Living' = Living /\ current' \in Living
  BY <1>1 DEF Held, Living, Tick, Switch
<1>4. Flagged' = 0 /\ Flagged \in 0 .. 1
  BY <1>2 DEF Flagged
<1>5. real' + Flagged' = ticks' + Cardinality(Held')
  <2>1. real + Flagged = ticks + Cardinality(Held) /\ ticks \in Nat /\ real \in Nat
    BY DEF TickInv
  <2>2. Cardinality(Held) \in Nat
    BY HeldIsBounded
  <2>3. Flagged \in Int /\ ticks' \in Int
    BY <1>2, <1>4
  <2>5. Cardinality(Held') = Cardinality(Held) + real' - real - 1
    BY <1>1, <1>3, <2>1, <2>2
  <2>. QED
    BY <1>4, <2>1, <2>2, <2>3, <2>5, <1>1, <1>2
<1>. QED
  BY <1>1, <1>2, <1>3, <1>5 DEF TickInv

(* A forced switch ends no tick.                                           *)
LEMMA ForcedSwitchKeeps ==
    ASSUME TickInv, ForcedSwitch
    PROVE  TickInv'
<1>1. ~ manual /\ manual' = FALSE
  BY DEF ForcedSwitch, TickInv
<1>2. Held' = Held /\ Living' = Living /\ Flagged' = Flagged
  BY <1>1 DEF ForcedSwitch, Held, Living, Flagged
<1>. QED
  BY <1>1, <1>2 DEF TickInv, ForcedSwitch, Switch

(* Raising the flag opens a difference of one tick.                        *)
LEMMA SetFlagKeeps ==
    ASSUME TimerAssumption, TickInv, SetFlag
    PROVE  TickInv'
<1>1. /\ current \in Proc /\ current' = current /\ doing[current] = "user"
      /\ doing \in [Proc -> Points] /\ doing' = [doing EXCEPT ![current] = "forcing"]
      /\ UNCHANGED <<ticks, real>>
  BY DEF SetFlag, TickInv, Living
<1>2. current \notin Held /\ ~ manual /\ manual' = TRUE
  BY <1>1 DEF Held, TickInv, SetFlag
<1>3. Cardinality(Held') = Cardinality(Held) + 1
  BY <1>1, <1>2, HeldChanges
<1>4. Flagged = 0 /\ Flagged' = 1
  BY <1>2 DEF Flagged
<1>5. doing' \in [Proc -> Points] /\ doing'[current'] = "forcing" /\ current' \in Living'
  BY <1>1 DEF Points, Living
<1>. QED
  BY <1>1, <1>2, <1>3, <1>4, <1>5, HeldIsBounded DEF TickInv

(* Its interrupt closes it.                                                *)
LEMMA RaiseInterruptKeeps ==
    ASSUME TimerAssumption, IntsSuffice, TickInv, RaiseInterrupt
    PROVE  TickInv'
<1>1. /\ current \in Proc /\ doing[current] = "forcing"
      /\ doing \in [Proc -> Points] /\ doing' = [doing EXCEPT ![current] = "user"]
      /\ UNCHANGED real
  BY DEF RaiseInterrupt, TickInv, Living
<1>2. manual' = FALSE /\ ticks' \in Nat /\ ticks' = ticks + 1 - Flagged
  BY HandlerCounts DEF RaiseInterrupt
<1>3. Cardinality(Held') = Cardinality(Held) - 1
  <2> DEFINE x == "user"
  <2>1. current \in Held /\ x \notin {"forcing", "struck"}
    BY <1>1 DEF Held
  <2>2. doing' = [doing EXCEPT ![current] = x]
    BY <1>1
  <2>. HIDE DEF x
  <2>. QED
    BY <1>1, <2>1, <2>2, HeldChanges
<1>4. Flagged' = 0 /\ Flagged \in 0 .. 1
  BY <1>2 DEF Flagged
<1>5. real' + Flagged' = ticks' + Cardinality(Held')
  <2>1. real + Flagged = ticks + Cardinality(Held) /\ ticks \in Nat /\ real \in Nat
    BY DEF TickInv
  <2>2. Cardinality(Held) \in Nat
    BY HeldIsBounded
  <2>3. Flagged \in Int /\ ticks' \in Int
    BY <1>2, <1>4
  <2>5. Cardinality(Held') = Cardinality(Held) + real' - real - 1
    BY <1>1, <1>3, <2>1, <2>2
  <2>. QED
    BY <1>4, <2>1, <2>2, <2>3, <2>5, <1>1, <1>2
<1>6. doing' \in [Proc -> Points] /\ current' \in Living'
  BY <1>1 DEF Points, Living, RaiseInterrupt
<1>. QED
  BY <1>1, <1>2, <1>5, <1>6 DEF TickInv

(* A kill between the two leaves it open for ever, and counted.            *)
LEMMA KillKeeps ==
    ASSUME TimerAssumption, TickInv, NEW p \in Proc, KillsProcess(p)
    PROVE  TickInv'
<1> DEFINE x == IF doing[p] = "forcing" /\ ~ (p = current /\ manual)
                THEN "struck" ELSE "dead"
<1>1. /\ p \in Living /\ doing' = [doing EXCEPT ![p] = x]
      /\ doing \in [Proc -> Points] /\ current \in Proc /\ UNCHANGED <<ticks, real>>
  BY DEF KillsProcess, TickInv, Living
<1>2. x \in {"struck", "dead"} /\ doing[p] # "struck"
  BY <1>1 DEF Living
<1>3. /\ doing' \in [Proc -> Points] /\ doing'[p] = x
      /\ \A q \in Proc \ {p} : doing'[q] = doing[q]
  BY <1>1, <1>2 DEF Points
<1>4. current' \in Living' /\ current' # p
  BY <1>1, <1>3 DEF KillsProcess, Living, TickInv
<1>5. manual' \in BOOLEAN /\ (manual' => manual /\ p # current /\ current' = current)
  BY DEF KillsProcess, TickInv
<1>6. manual' => doing'[current'] = "forcing"
  BY <1>1, <1>3, <1>5 DEF TickInv
<1>7. real' + Flagged' = ticks' + Cardinality(Held')
  <2>1. CASE p = current /\ manual
    <3>1. doing[p] = "forcing" /\ x = "dead" /\ manual' = FALSE
      BY <2>1 DEF TickInv, KillsProcess
    <3>2. p \in Held /\ x \notin {"forcing", "struck"}
      BY <3>1 DEF Held
    <3>. HIDE DEF x
    <3>3. Cardinality(Held') = Cardinality(Held) - 1
      BY <1>1, <3>2, HeldChanges
    <3>4. Flagged = 1 /\ Flagged' = 0
      BY <2>1, <3>1 DEF Flagged
    <3>. QED
      BY <1>1, <3>3, <3>4, HeldIsBounded DEF TickInv
  <2>2. CASE ~ (p = current /\ manual)
    <3>1. doing[p] \in {"forcing", "struck"} <=> x \in {"forcing", "struck"}
      BY <1>2, <2>2
    <3>. HIDE DEF x
    <3>2. Held' = Held
      BY <1>1, <3>1, SameHeld
    <3>3. Flagged' = Flagged
      BY <2>2 DEF KillsProcess, Flagged, TickInv
    <3>. QED
      BY <1>1, <3>2, <3>3 DEF TickInv
  <2>. QED
    BY <2>1, <2>2
<1>. QED
  BY <1>1, <1>3, <1>4, <1>5, <1>6, <1>7 DEF TickInv

\* Falling asleep and waking up.
LEMMA SleepKeepsTicks ==
    ASSUME TickInv, NEW x \in {"user", "asleep"}, doing[current] \in {"user", "asleep"},
           doing' = [doing EXCEPT ![current] = x],
           UNCHANGED <<ticks, manual, current, real>>
    PROVE  TickInv'
<1>1. current \in Proc /\ doing \in [Proc -> Points]
  BY DEF TickInv, Living
<1>2. Held' = Held
  BY <1>1 DEF Held
<1>3. current' \in Living' /\ doing' \in [Proc -> Points] /\ ~ manual
  BY <1>1 DEF Living, Points, TickInv
<1>4. Flagged' = Flagged
  BY DEF Flagged
<1>. QED
  BY <1>2, <1>3, <1>4 DEF TickInv

(* TickInv is inductive.                                                   *)
LEMMA TickStep ==
    ASSUME TimerAssumption, IntsSuffice, TickInv, [TimerNext]_timerVars
    PROVE  TickInv'
<1>1. CASE Tick \/ force_context_switch
  BY <1>1, TickKeeps DEF force_context_switch
<1>2. CASE ForcedSwitch
  BY <1>2, ForcedSwitchKeeps
<1>3. CASE SetFlag
  BY <1>3, SetFlagKeeps
<1>4. CASE RaiseInterrupt
  BY <1>4, RaiseInterruptKeeps
<1>5. ASSUME NEW p \in Proc, KillsProcess(p)
      PROVE  TickInv'
  BY <1>5, KillKeeps
<1>6. ASSUME NEW segs \in Secs, sleep(segs)
      PROVE  TickInv'
  BY <1>6, SleepKeepsTicks DEF sleep
<1>7. CASE SleepOn \/ UNCHANGED timerVars
  BY <1>7 DEF SleepOn, timerVars, TickInv, Held, Flagged, Living
<1>8. CASE WakeUp
  BY <1>8, SleepKeepsTicks DEF WakeUp
<1>. QED
  BY <1>1, <1>2, <1>3, <1>4, <1>5, <1>6, <1>7, <1>8 DEF TimerNext

---------------------------------------------------------------------------
(* The sleepers, step by step *)

\* Whoever slept before and still does is not disturbed.
LEMMA SleepersStay ==
    ASSUME TickInv, SleepInv, real' \in Nat, real <= real',
           UNCHANGED <<current_ticks, time, asked>>,
           \A p \in Proc : doing'[p] = "asleep" => doing[p] = "asleep"
    PROVE  SleepInv'
<1>1. ASSUME NEW p \in Proc, doing'[p] = "asleep"
      PROVE  SleeperInv(p)'
  <2>1. SleeperInv(p)
    BY <1>1 DEF SleepInv
  <2>. QED
    BY <2>1 DEF SleeperInv, TickInv
<1>. QED
  BY <1>1 DEF SleepInv

\* What is asked for, in ticks.
LEMMA TicksAskedFor ==
    ASSUME TimerAssumption, IntsSuffice, NEW segs \in Secs
    PROVE  /\ AtLeastOne(segs) \in Nat
           /\ TicksOf(segs) = AtLeastOne(segs) * PerSecond
           /\ TicksOf(segs) \in Nat /\ MaxReal + TicksOf(segs) <= INT_MAX
<1>1. /\ AtLeastOne(segs) \in Nat /\ AtLeastOne(segs) >= 1
      /\ PerSecond \in Nat /\ PerSecond >= 1
      /\ MaxReal \in Nat /\ INT_MAX \in Nat
  BY DEF TimerAssumption, AtLeastOne
<1> DEFINE n == AtLeastOne(segs) * PerSecond
<1>2. n \in Nat /\ n >= 1
  <2> DEFINE a == AtLeastOne(segs)
  <2>. HIDE DEF a
  <2>1. a \in Nat /\ a >= 1
    BY <1>1 DEF a
  <2>2. a * PerSecond \in Nat /\ a * PerSecond >= 1
    BY <1>1, <2>1
  <2>. QED
    BY <2>2 DEF a
<1>3. MaxReal + n <= INT_MAX
  BY DEF IntsSuffice
<1>. HIDE DEF n
<1>4. n <= INT_MAX
  BY <1>1, <1>2, <1>3
<1>5. AsInt(n) = n
  BY <1>2, <1>4, SmallNumbers
<1>6. TicksOf(segs) = n
  BY <1>2, <1>5 DEF TicksOf, n
<1>. QED
  BY <1>1, <1>2, <1>3, <1>6 DEF n

(* A sleep begins with its end ahead.                                      *)
LEMMA FallsAsleep ==
    ASSUME TimerAssumption, IntsSuffice, TickInv, SleepInv, NEW segs \in Secs, sleep(segs)
    PROVE  SleepInv'
<1>1. /\ current \in Proc /\ doing \in [Proc -> Points] /\ current \notin Held
      /\ ticks \in Nat /\ real \in 0 .. MaxReal
  BY DEF TickInv, Living, sleep, Held
<1>2. ticks <= real /\ real + 1 <= ticks + Cardinality(Proc) /\ Cardinality(Proc) \in Nat
  BY <1>1, TicksAreBounded, HeldIsBounded
<1>3. AsInt(ticks) = ticks
  <2>1. ticks <= INT_MAX
    BY <1>1, <1>2 DEF IntsSuffice, TimerAssumption
  <2>. QED
    BY <1>1, <2>1, SmallNumbers
<1>4. /\ current_ticks' = [current_ticks EXCEPT ![current] = ticks]
      /\ time' = [time EXCEPT ![current] = TicksOf(segs)]
      /\ asked' = [asked EXCEPT ![current] = [secs |-> AtLeastOne(segs), at |-> real]]
      /\ doing' = [doing EXCEPT ![current] = "asleep"] /\ real' = real
  BY <1>3 DEF sleep
<1>5. SleeperInv(current)'
  <2>1. /\ current_ticks'[current] = ticks /\ time'[current] = TicksOf(segs)
        /\ asked'[current].at = real /\ asked'[current].secs = AtLeastOne(segs)
    BY <1>1, <1>4 DEF SleepInv
  <2>2. current' = current
    BY DEF sleep
  <2>. QED
    BY <1>1, <1>2, <1>4, <2>1, <2>2, TicksAskedFor DEF SleeperInv
<1>6. ASSUME NEW p \in Proc \ {current}, doing'[p] = "asleep"
      PROVE  SleeperInv(p)'
  <2>1. SleeperInv(p)
    BY <1>1, <1>4, <1>6 DEF SleepInv
  <2>2. /\ current_ticks'[p] = current_ticks[p] /\ time'[p] = time[p]
        /\ asked'[p] = asked[p]
    BY <1>4 DEF SleepInv
  <2>. QED
    BY <1>4, <2>1, <2>2 DEF SleeperInv
<1>7. /\ current_ticks' \in [Proc -> Int] /\ time' \in [Proc -> Int]
      /\ asked' \in [Proc -> [secs : Int, at : Nat]]
  BY <1>1, <1>4, TicksAskedFor DEF SleepInv
<1>8. current' = current
  BY DEF sleep
<1>. QED
  BY <1>5, <1>6, <1>7, <1>8 DEF SleepInv

(* It ends when the counter says so.                                       *)
LEMMA WakesUp ==
    ASSUME TickInv, SleepInv, WakeUp
    PROVE  SleepInv'
<1>1. /\ current \in Proc /\ doing \in [Proc -> Points] /\ real' = real
      /\ doing' = [doing EXCEPT ![current] = "user"]
      /\ current_ticks' = [current_ticks EXCEPT ![current] = 0]
      /\ time' = [time EXCEPT ![current] = 0]
      /\ asked' = [asked EXCEPT ![current] = [secs |-> 1, at |-> 0]]
  BY DEF TickInv, Living, WakeUp
<1>2. ASSUME NEW p \in Proc, doing'[p] = "asleep"
      PROVE  SleeperInv(p)'
  <2>1. p # current /\ doing[p] = "asleep"
    BY <1>1, <1>2
  <2>2. SleeperInv(p)
    BY <2>1 DEF SleepInv
  <2>3. /\ current_ticks'[p] = current_ticks[p] /\ time'[p] = time[p]
        /\ asked'[p] = asked[p]
    BY <1>1, <2>1 DEF SleepInv
  <2>. QED
    BY <1>1, <2>2, <2>3 DEF SleeperInv
<1>3. /\ current_ticks' \in [Proc -> Int] /\ time' \in [Proc -> Int]
      /\ asked' \in [Proc -> [secs : Int, at : Nat]]
  BY <1>1 DEF SleepInv
<1>. QED
  BY <1>2, <1>3 DEF SleepInv

(* SleepInv is inductive on top of TickInv.                                *)
LEMMA SleepStep ==
    ASSUME TimerAssumption, IntsSuffice, TickInv, SleepInv, [TimerNext]_timerVars
    PROVE  SleepInv'
<1>. real \in Nat /\ doing \in [Proc -> Points] /\ current \in Proc
  BY DEF TickInv, Living
<1>1. CASE Tick \/ force_context_switch \/ ForcedSwitch \/ SleepOn \/ UNCHANGED timerVars
  <2>1. /\ real' \in Nat /\ real <= real' /\ doing' = doing
        /\ UNCHANGED <<current_ticks, time, asked>>
    BY <1>1 DEF Tick, force_context_switch, ForcedSwitch, SleepOn, timerVars
  <2>. QED
    BY <2>1, SleepersStay
<1>2. CASE SetFlag \/ RaiseInterrupt \/ \E p \in Proc : KillsProcess(p)
  <2>1. real' = real /\ UNCHANGED <<current_ticks, time, asked>>
    BY <1>2 DEF SetFlag, RaiseInterrupt, KillsProcess
  <2>2. PICK p \in Proc, x \in {"forcing", "user", "struck", "dead"} :
            doing' = [doing EXCEPT ![p] = x]
    BY <1>2 DEF SetFlag, RaiseInterrupt, KillsProcess
  <2>3. \A q \in Proc : doing'[q] = "asleep" => doing[q] = "asleep"
    BY <2>2
  <2>. QED
    BY <2>1, <2>3, SleepersStay
<1>3. ASSUME NEW segs \in Secs, sleep(segs)
      PROVE  SleepInv'
  BY <1>3, FallsAsleep
<1>4. CASE WakeUp
  BY <1>4, WakesUp
<1>. QED
  BY <1>1, <1>2, <1>3, <1>4 DEF TimerNext

\* What the counter says of a sleeper is what the interrupts say.
LEMMA OnTime ==
    ASSUME TimerAssumption, IntsSuffice, TickInv, SleepInv
    PROVE  SleepIsOnTime
<1>1. SUFFICES ASSUME NEW p \in Proc, doing[p] = "asleep"
               PROVE  /\ ~ StillWaits(p) => real - asked[p].at
                             >= asked[p].secs * PerSecond + 2 - Cardinality(Proc)
                      /\ real - asked[p].at
                             >= asked[p].secs * PerSecond + Cardinality(Proc)
                         => ~ StillWaits(p)
  BY DEF SleepIsOnTime, SleepLasts, SleepEnds
<1>2. SleeperInv(p)
  BY <1>1 DEF SleepInv
<1>3. p \notin Held
  BY <1>1 DEF Held
<1>4. ticks <= real /\ real + 1 <= ticks + Cardinality(Proc) /\ Cardinality(Proc) \in Nat
  BY <1>3, TicksAreBounded, HeldIsBounded
<1> DEFINE s == current_ticks[p] + time[p]
<1>5. s \in Nat /\ s <= INT_MAX
  BY <1>2 DEF SleeperInv, TickInv, IntsSuffice, TimerAssumption
<1>6. AsLong(AsInt(s)) = s
  <2>. HIDE DEF s
  <2>. QED
    BY <1>5, SmallNumbers
<1>7. StillWaits(p) <=> current_ticks[p] + time[p] >= ticks
  BY <1>6 DEF StillWaits
<1>8. ticks \in Nat /\ real \in Nat
  BY DEF TickInv
<1>. QED
  BY <1>2, <1>4, <1>7, <1>8 DEF SleeperInv

(* Nobody sleeps and both counts are 0.                                    *)
LEMMA TimerBegins ==
    ASSUME TimerAssumption, TimerInit
    PROVE  TickInv /\ SleepInv
<1>1. Held = {} /\ Flagged = 0 /\ Living = Proc
  BY DEF TimerInit, Held, Flagged, Living
<1>2. Cardinality(Held) = 0
  BY <1>1, FS_EmptySet
<1>3. real + Flagged = ticks + Cardinality(Held)
  BY <1>1, <1>2 DEF TimerInit
<1>4. TickInv
  <2>1. ticks \in Nat /\ real \in 0 .. MaxReal
    BY DEF TimerInit, TimerAssumption
  <2>2. manual \in BOOLEAN /\ ~ manual
    BY DEF TimerInit
  <2>3. doing \in [Proc -> Points] /\ current \in Living
    BY <1>1 DEF TimerInit, Points
  <2>. QED
    BY <1>3, <2>1, <2>2, <2>3 DEF TickInv
<1>5. SleepInv
  BY DEF TimerInit, SleepInv
<1>. QED
  BY <1>4, <1>5

(* A sleep ends neither before the seconds asked for nor later than they   *)
(* and the ticks other processes hold back (sleep in time.c), as long as   *)
(* the machine has not been up for 2^31 ticks.                             *)
THEOREM SleepEndsInTime ==
    ASSUME TimerAssumption, IntsSuffice
    PROVE  TimerSpec => []SleepIsOnTime
<1>1. TimerInit => TickInv /\ SleepInv
  BY TimerBegins
<1>2. TickInv /\ SleepInv /\ [TimerNext]_timerVars => (TickInv /\ SleepInv)'
  BY TickStep, SleepStep
<1>3. TickInv /\ SleepInv => SleepIsOnTime
  BY OnTime
<1>. QED
  BY <1>1, <1>2, <1>3, PTL DEF TimerSpec
=============================================================================
