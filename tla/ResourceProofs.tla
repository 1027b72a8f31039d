--------------------------- MODULE ResourceProofs ---------------------------
(***************************************************************************)
(* Proofs about what a process holds.                                      *)
(*                                                                         *)
(* Descriptors: whatever is inherited, overridden, refused and released,   *)
(* the counts of a pipe are the descriptors that refer to it, and a        *)
(* creation posts to no reader.  A creation and an exit go through tables  *)
(* that no process ever sees, in which some descriptors are registered and *)
(* others not.  Balanced says of such a table that it counts the           *)
(* descriptors of a set H, those that are registered so far, and that none *)
(* of them refers to a free slot.  Each function of pipe.c adds one        *)
(* descriptor to H or takes one away.                                      *)
(*                                                                         *)
(* ProcessMemory: the arguments and the stack of a slot are blocks of      *)
(* nobody else, at every allocation of a creation that may fail and        *)
(* whoever frees them, and the stack the CPU is on is never freed.         *)
(*                                                                         *)
(* Pipeline: at each stage of the shell CrewInv says who may live, and     *)
(* FlowInv that the one open pipe has bytes of its writer only and a       *)
(* reader that stays until it has read all of them.                        *)
(***************************************************************************)
EXTENDS Pipeline, ProcessMemory, FiniteSetTheorems, TLAPS

Descs == [Fds -> PipeIds \union {Console}]

Writing == {"stdout", "stderr"}

\* The descriptors of H among fds that refer to pipe i; d has those of each process.
Held(H, d, fds, i) == {h \in H : h[2] \in fds /\ d[h[1]][h[2]] = i}

Balanced(t, d, H) ==
    /\ \A i \in PipeIds : t[i].active =>
          /\ t[i].readers = Cardinality(Held(H, d, {"stdin"}, i))
          /\ t[i].writers = Cardinality(Held(H, d, Writing, i))
    /\ \A h \in H : d[h[1]][h[2]] # Console => t[d[h[1]][h[2]]].active

GoodTable(t, d, H) ==
    /\ t \in [PipeIds -> PipeSlot]
    /\ d \in [Procs -> Descs]
    /\ H \subseteq Procs \X Fds
    /\ Balanced(t, d, H)

States == [table: [PipeIds -> PipeSlot], desc: Descs, ok: BOOLEAN, posted: BOOLEAN]

\* The same of a creation or an exit of p under way, where s.desc are its descriptors.
GoodState(s, d, p, H) ==
    /\ s \in States
    /\ GoodTable(s.table, [d EXCEPT ![p] = s.desc], H)

IoInv ==
    /\ IoTypeOK
    /\ Balanced(pipes, io, alive \X Fds)
    /\ NoSwitchInCreation

-----------------------------------------------------------------------------
(* One descriptor *)

LEMMA SlotIsFree == DescriptorsAssumption => FreeSlot \in PipeSlot
  BY DEF FreeSlot, PipeSlot

(* The descriptors that refer to a pipe are finitely many.                 *)
LEMMA HeldIsFinite ==
    ASSUME DescriptorsAssumption, NEW H, H \subseteq Procs \X Fds, NEW d, NEW fds, NEW i
    PROVE  IsFiniteSet(Held(H, d, fds, i)) /\ Cardinality(Held(H, d, fds, i)) \in Nat
<1>1. IsFiniteSet(Fds)
  <2>1. Fds = ({"stdin"} \union {"stdout"}) \union {"stderr"}
    BY DEF Fds
  <2>. QED
    BY <2>1, FS_Singleton, FS_Union
<1>2. IsFiniteSet(Procs \X Fds)
  BY <1>1, FS_Product DEF DescriptorsAssumption
<1>3. Held(H, d, fds, i) \subseteq Procs \X Fds
  BY DEF Held
<1>. QED
  BY <1>2, <1>3, FS_Subset, FS_CardinalityType

\* Whose descriptors are not in H is of no account.
LEMMA OthersChange ==
    ASSUME NEW t, NEW d, NEW H, GoodTable(t, d, H), NEW e \in [Procs -> Descs],
           \A h \in H : e[h[1]][h[2]] = d[h[1]][h[2]]
    PROVE  GoodTable(t, e, H)
<1>1. \A fds, i : Held(H, e, fds, i) = Held(H, d, fds, i)
  BY DEF Held
<1>. QED
  BY <1>1 DEF GoodTable, Balanced

(* A descriptor of the console counts for no pipe.                         *)
LEMMA ConsoleHeld ==
    ASSUME NEW t, NEW d, NEW H, GoodTable(t, d, H), NEW p \in Procs, NEW fd \in Fds,
           d[p][fd] = Console
    PROVE  GoodTable(t, d, H \union {<<p, fd>>}) /\ GoodTable(t, d, H \ {<<p, fd>>})
<1>1. \A fds : \A i \in PipeIds :
         /\ Held(H \union {<<p, fd>>}, d, fds, i) = Held(H, d, fds, i)
         /\ Held(H \ {<<p, fd>>}, d, fds, i) = Held(H, d, fds, i)
  BY DEF Held, PipeIds, Console
<1>2. /\ \A h \in H \union {<<p, fd>>} : h \in H \/ d[h[1]][h[2]] = Console
      /\ H \union {<<p, fd>>} \subseteq Procs \X Fds
      /\ H \ {<<p, fd>>} \subseteq H
  BY DEF GoodTable
<1>3. GoodTable(t, d, H \union {<<p, fd>>})
  BY <1>1, <1>2 DEF GoodTable, Balanced
<1>4. GoodTable(t, d, H \ {<<p, fd>>})
  BY <1>1, <1>2 DEF GoodTable, Balanced
<1>. QED
  BY <1>3, <1>4

\* pipe_register_reader and pipe_register_writer.
LEMMA Registers ==
    ASSUME DescriptorsAssumption, NEW t, NEW d, NEW H, GoodTable(t, d, H),
           NEW p \in Procs, NEW fd \in Fds, <<p, fd>> \notin H,
           NEW i \in PipeIds, d[p][fd] = i, t[i].active
    PROVE  GoodTable(Registered(t, fd, i), d, H \union {<<p, fd>>})
<1> DEFINE x == <<p, fd>>
           u == Registered(t, fd, i)
           G == H \union {x}
<1>1. /\ t \in [PipeIds -> PipeSlot] /\ d \in [Procs -> Descs] /\ H \subseteq Procs \X Fds
      /\ Balanced(t, d, H)
  BY DEF GoodTable
<1>2. /\ u \in [PipeIds -> PipeSlot] /\ G \subseteq Procs \X Fds
      /\ \A j \in PipeIds : u[j].active = t[j].active
      /\ \A j \in PipeIds \ {i} : u[j] = t[j]
      /\ u[i].readers = IF fd = "stdin" THEN t[i].readers + 1 ELSE t[i].readers
      /\ u[i].writers = IF fd = "stdin" THEN t[i].writers ELSE t[i].writers + 1
  <2> DEFINE r == t[i].readers + 1
             w == t[i].writers + 1
             v == IF fd = "stdin" THEN [t[i] EXCEPT !.readers = r]
                  ELSE [t[i] EXCEPT !.writers = w]
  <2>1. t[i] \in PipeSlot /\ G \subseteq Procs \X Fds /\ r \in Nat /\ w \in Nat
    BY <1>1 DEF PipeSlot
  <2>2. u = [t EXCEPT ![i] = v]
    BY DEF Registered
  <2>. HIDE DEF u, G, r, w
  <2>3. /\ v \in PipeSlot /\ v.active = t[i].active
        /\ v.readers = IF fd = "stdin" THEN r ELSE t[i].readers
        /\ v.writers = IF fd = "stdin" THEN t[i].writers ELSE w
    BY <2>1 DEF PipeSlot
  <2>. HIDE DEF v
  <2>. QED
    BY <1>1, <2>1, <2>2, <2>3 DEF r, w
<1>3. \A fds, j : Held(G, d, fds, j) =
         IF fd \in fds /\ j = i THEN Held(H, d, fds, j) \union {x} ELSE Held(H, d, fds, j)
  BY DEF Held
<1>4. \A fds : x \notin Held(H, d, fds, i)
  BY DEF Held
<1>5. \A fds :
         Cardinality(Held(H, d, fds, i) \union {x}) = Cardinality(Held(H, d, fds, i)) + 1
  BY <1>1, <1>4, HeldIsFinite, FS_AddElement
<1>6. fd = "stdin" \/ fd \in Writing
  BY DEF Fds, Writing
<1>7. "stdin" \notin Writing
  BY DEF Writing
<1>. HIDE DEF x, u, G
<1>8. \A j \in PipeIds : u[j].active =>
          /\ u[j].readers = Cardinality(Held(G, d, {"stdin"}, j))
          /\ u[j].writers = Cardinality(Held(G, d, Writing, j))
  <2>1. ASSUME NEW j \in PipeIds, u[j].active, j # i
        PROVE  /\ u[j].readers = Cardinality(Held(G, d, {"stdin"}, j))
               /\ u[j].writers = Cardinality(Held(G, d, Writing, j))
    BY <1>1, <1>2, <1>3, <2>1 DEF Balanced
  <2>2. /\ t[i].readers = Cardinality(Held(H, d, {"stdin"}, i))
        /\ t[i].writers = Cardinality(Held(H, d, Writing, i))
    BY <1>1 DEF Balanced
  <2>3. CASE fd = "stdin"
    BY <1>2, <1>3, <1>5, <1>7, <2>1, <2>2, <2>3
  <2>4. CASE fd # "stdin"
    BY <1>2, <1>3, <1>5, <1>6, <2>1, <2>2, <2>4
  <2>. QED
    BY <2>3, <2>4
<1>9. \A h \in G : d[h[1]][h[2]] # Console => u[d[h[1]][h[2]]].active
  <2>1. \A h \in G : h \in Procs \X Fds /\ d[h[1]][h[2]] \in PipeIds \union {Console}
    BY <1>1, <1>2 DEF Descs
  <2>2. \A h \in G : h \in H \/ d[h[1]][h[2]] = i
    BY DEF G, x
  <2>. QED
    BY <1>1, <1>2, <2>1, <2>2 DEF Balanced
<1>. QED
  BY <1>1, <1>2, <1>8, <1>9 DEF GoodTable, Balanced, u, G, x

(* Destroying a pipe that nobody uses keeps the counts.                    *)
LEMMA Destroys ==
    ASSUME DescriptorsAssumption, NEW t, NEW d, NEW H, GoodTable(t, d, H), NEW i \in PipeIds
    PROVE  /\ GoodTable(pipe_destroy_if_unused(t, i), d, H)
           /\ (\E h \in H : d[h[1]][h[2]] = i) => pipe_destroy_if_unused(t, i) = t
<1>1. /\ t \in [PipeIds -> PipeSlot] /\ d \in [Procs -> Descs] /\ H \subseteq Procs \X Fds
      /\ Balanced(t, d, H)
  BY DEF GoodTable
<1>2. ASSUME t[i].active, t[i].readers = 0, t[i].writers = 0, NEW h \in H, d[h[1]][h[2]] = i
      PROVE  FALSE
  <2>1. h[2] \in {"stdin"} \/ h[2] \in Writing
    BY <1>1 DEF Fds, Writing
  <2>2. h \in Held(H, d, {"stdin"}, i) \/ h \in Held(H, d, Writing, i)
    BY <1>2, <2>1 DEF Held
  <2>3. /\ Cardinality(Held(H, d, {"stdin"}, i)) = 0
        /\ Cardinality(Held(H, d, Writing, i)) = 0
    BY <1>1, <1>2 DEF Balanced
  <2>4. Held(H, d, {"stdin"}, i) = {} /\ Held(H, d, Writing, i) = {}
    BY <1>1, <2>3, HeldIsFinite, FS_EmptySet
  <2>. QED
    BY <2>2, <2>4
<1>3. CASE pipe_destroy_if_unused(t, i) = t
  BY <1>3
<1>4. CASE pipe_destroy_if_unused(t, i) # t
  <2> DEFINE u == [t EXCEPT ![i] = FreeSlot]
  <2>1. /\ t[i].active /\ t[i].readers = 0 /\ t[i].writers = 0
        /\ pipe_destroy_if_unused(t, i) = u
    BY <1>4 DEF pipe_destroy_if_unused
  <2>2. \A h \in H : d[h[1]][h[2]] # i
    BY <1>2, <2>1
  <2>3. /\ u \in [PipeIds -> PipeSlot] /\ ~ u[i].active
        /\ \A j \in PipeIds \ {i} : u[j] = t[j]
    BY <1>1, SlotIsFree DEF FreeSlot
  <2>. HIDE DEF u
  <2>4. \A h \in H : d[h[1]][h[2]] \in (PipeIds \ {i}) \union {Console}
    BY <1>1, <2>2 DEF Descs
  <2>5. GoodTable(u, d, H)
    BY <1>1, <2>3, <2>4 DEF GoodTable, Balanced
  <2>. QED
    BY <2>1, <2>2, <2>5
<1>. QED
  BY <1>3, <1>4

\* pipe_unregister_reader and pipe_unregister_writer.
LEMMA Unregisters ==
    ASSUME DescriptorsAssumption, NEW t, NEW d, NEW H, GoodTable(t, d, H),
           NEW p \in Procs, NEW fd \in Fds, <<p, fd>> \in H,
           NEW i \in PipeIds, d[p][fd] = i
    PROVE  /\ GoodTable(Unregistered(t, fd, i), d, H \ {<<p, fd>>})
           /\ (\E h \in H \ {<<p, fd>>} : d[h[1]][h[2]] = i)
              => Unregistered(t, fd, i)[i].active
<1> DEFINE x == <<p, fd>>
           u == IF fd = "stdin" THEN [t EXCEPT ![i].readers = Minus1(@)]
                ELSE [t EXCEPT ![i].writers = Minus1(@),
                               ![i].eof = @ \/ LastWriter(t, fd, i)]
           G == H \ {x}
<1>1. /\ t \in [PipeIds -> PipeSlot] /\ d \in [Procs -> Descs] /\ H \subseteq Procs \X Fds
      /\ Balanced(t, d, H) /\ x \in H /\ d[x[1]][x[2]] = i /\ t[i].active
  BY DEF GoodTable, Balanced, PipeIds, Console
<1>2. /\ u \in [PipeIds -> PipeSlot] /\ G \subseteq Procs \X Fds
      /\ \A j \in PipeIds : u[j].active = t[j].active
      /\ \A j \in PipeIds \ {i} : u[j] = t[j]
      /\ u[i].readers = IF fd = "stdin" THEN Minus1(t[i].readers) ELSE t[i].readers
      /\ u[i].writers = IF fd = "stdin" THEN t[i].writers ELSE Minus1(t[i].writers)
  <2> DEFINE e == t[i].eof \/ LastWriter(t, fd, i)
             v == IF fd = "stdin" THEN [t[i] EXCEPT !.readers = Minus1(@)]
                  ELSE [t[i] EXCEPT !.writers = Minus1(@), !.eof = e]
  <2>1. /\ t[i] \in PipeSlot /\ G \subseteq Procs \X Fds
        /\ Minus1(t[i].readers) \in Nat /\ Minus1(t[i].writers) \in Nat
    BY <1>1 DEF PipeSlot, Minus1
  <2>2. e \in BOOLEAN
    OBVIOUS
  <2>3. u = [t EXCEPT ![i] = v]
    BY <1>1
  <2>. HIDE DEF e, u, G
  <2>4. /\ v \in PipeSlot /\ v.active = t[i].active
        /\ v.readers = IF fd = "stdin" THEN Minus1(t[i].readers) ELSE t[i].readers
        /\ v.writers = IF fd = "stdin" THEN t[i].writers ELSE Minus1(t[i].writers)
    BY <2>1, <2>2 DEF PipeSlot
  <2>. HIDE DEF v
  <2>. QED
    BY <1>1, <2>1, <2>3, <2>4
<1>3. \A fds, j : Held(G, d, fds, j) = IF fd \in fds /\ j = i THEN Held(H, d, fds, j) \ {x}
                                       ELSE Held(H, d, fds, j)
  BY <1>1 DEF Held
<1>4. \A fds : fd \in fds =>
         /\ Cardinality(Held(H, d, fds, i)) > 0
         /\ Cardinality(Held(H, d, fds, i) \ {x}) = Cardinality(Held(H, d, fds, i)) - 1
  <2>1. ASSUME NEW fds, fd \in fds
        PROVE  x \in Held(H, d, fds, i)
    BY <1>1, <2>1 DEF Held
  <2>2. ASSUME NEW fds, fd \in fds
        PROVE  /\ Cardinality(Held(H, d, fds, i)) > 0
               /\ Cardinality(Held(H, d, fds, i) \ {x})
                  = Cardinality(Held(H, d, fds, i)) - 1
    <3>1. IsFiniteSet(Held(H, d, fds, i)) /\ Cardinality(Held(H, d, fds, i)) \in Nat
      BY <1>1, HeldIsFinite
    <3>2. Cardinality(Held(H, d, fds, i)) # 0
      BY <2>1, <2>2, <3>1, FS_EmptySet
    <3>3. Cardinality(Held(H, d, fds, i) \ {x}) = Cardinality(Held(H, d, fds, i)) - 1
      BY <2>1, <2>2, <3>1, FS_RemoveElement, Zenon
    <3>. QED
      BY <3>1, <3>2, <3>3
  <2>. QED
    BY <2>2
<1>5. fd = "stdin" \/ fd \in Writing
  BY DEF Fds, Writing
<1>6. "stdin" \notin Writing
  BY DEF Writing
<1>7. /\ t[i].readers = Cardinality(Held(H, d, {"stdin"}, i))
      /\ t[i].writers = Cardinality(Held(H, d, Writing, i))
      /\ t[i].readers \in Nat /\ t[i].writers \in Nat
  BY <1>1 DEF Balanced, PipeSlot
<1>. HIDE DEF x, u, G
<1>8. \A j \in PipeIds : u[j].active =>
          /\ u[j].readers = Cardinality(Held(G, d, {"stdin"}, j))
          /\ u[j].writers = Cardinality(Held(G, d, Writing, j))
  <2>1. ASSUME NEW j \in PipeIds, u[j].active, j # i
        PROVE  /\ u[j].readers = Cardinality(Held(G, d, {"stdin"}, j))
               /\ u[j].writers = Cardinality(Held(G, d, Writing, j))
    BY <1>1, <1>2, <1>3, <2>1 DEF Balanced
  <2>3. CASE fd = "stdin"
    <3>1. u[i].readers = t[i].readers - 1 /\ u[i].writers = t[i].writers
      BY <1>2, <1>4, <1>7, <2>3 DEF Minus1
    <3>. QED
      BY <1>3, <1>4, <1>6, <1>7, <2>1, <2>3, <3>1
  <2>4. CASE fd # "stdin"
    <3>1. u[i].readers = t[i].readers /\ u[i].writers = t[i].writers - 1
      BY <1>2, <1>4, <1>5, <1>7, <2>4 DEF Minus1
    <3>. QED
      BY <1>3, <1>4, <1>5, <1>7, <2>1, <2>4, <3>1
  <2>. QED
    BY <2>3, <2>4
<1>9. \A h \in G : d[h[1]][h[2]] # Console => u[d[h[1]][h[2]]].active
  <2>1. \A h \in G : d[h[1]][h[2]] \in PipeIds \union {Console}
    BY <1>1, <1>2 DEF Descs
  <2>2. \A h \in G : h \in H
    BY DEF G
  <2>. QED
    BY <1>1, <1>2, <2>1, <2>2 DEF Balanced
<1>10. GoodTable(u, d, G)
  BY <1>1, <1>2, <1>8, <1>9 DEF GoodTable, Balanced
<1>11. Unregistered(t, fd, i) = pipe_destroy_if_unused(u, i)
  BY DEF Unregistered, u
<1>12. u[i].active
  BY <1>1, <1>2
<1>. QED
  BY <1>10, <1>11, <1>12, Destroys DEF G, x

-----------------------------------------------------------------------------
(* The descriptors of a process *)

LEMMA ReleaseKeeps ==
    ASSUME DescriptorsAssumption, NEW d \in [Procs -> Descs], NEW p \in Procs,
           NEW s, NEW H, GoodState(s, d, p, H), NEW fd \in Fds, <<p, fd>> \in H
    PROVE  /\ GoodState(Release(s, fd), d, p, H \ {<<p, fd>>})
           /\ Release(s, fd).desc = s.desc /\ Release(s, fd).ok = s.ok
<1> DEFINE e == [d EXCEPT ![p] = s.desc]
           i == s.desc[fd]
<1>1. /\ s.table \in [PipeIds -> PipeSlot] /\ s.desc \in Descs
      /\ s.ok \in BOOLEAN /\ s.posted \in BOOLEAN
      /\ GoodTable(s.table, e, H) /\ e[p][fd] = i
  BY DEF GoodState, States
<1>. HIDE DEF e
<1>2. CASE ~ IsPipe(s.table, i)
  <2>1. Release(s, fd) = s
    BY <1>2 DEF Release
  <2>2. i = Console
    <3>1. i \in PipeIds \union {Console}
      BY <1>1 DEF Descs
    <3>2. i # Console => s.table[i].active
      BY <1>1 DEF GoodTable, Balanced
    <3>. QED
      BY <1>2, <3>1, <3>2 DEF IsPipe
  <2>3. GoodTable(s.table, e, H \ {<<p, fd>>})
    BY <1>1, <2>2, ConsoleHeld
  <2>. QED
    BY <2>1, <2>3 DEF GoodState, States, e
<1>3. CASE IsPipe(s.table, i)
  <2> DEFINE o == s.posted \/ (LastWriter(s.table, fd, i) /\ s.table[i].readers > 0)
             w == [s EXCEPT !.table = Unregistered(s.table, fd, i), !.posted = o]
  <2>1. Release(s, fd) = w
    BY <1>3 DEF Release
  <2>2. o \in BOOLEAN
    OBVIOUS
  <2>3. GoodTable(Unregistered(s.table, fd, i), e, H \ {<<p, fd>>})
    BY <1>1, <1>3, Unregisters DEF IsPipe
  <2>4. Unregistered(s.table, fd, i) \in [PipeIds -> PipeSlot]
    BY <2>3 DEF GoodTable
  <2>. HIDE DEF o
  <2>5. /\ w \in States
        /\ w.table = Unregistered(s.table, fd, i) /\ w.desc = s.desc /\ w.ok = s.ok
    BY <1>1, <2>2, <2>4 DEF GoodState, States
  <2>. HIDE DEF w
  <2>. QED
    BY <2>1, <2>3, <2>5 DEF GoodState, States, e
<1>. QED
  BY <1>2, <1>3

\* What another process holds as well is neither freed nor posted to.
LEMMA ReleaseOfShared ==
    ASSUME DescriptorsAssumption, NEW d \in [Procs -> Descs], NEW p \in Procs,
           NEW s, NEW H, GoodState(s, d, p, H), NEW fd \in Fds, <<p, fd>> \in H,
           NEW q \in Procs, q # p, <<q, fd>> \in H, d[q][fd] = s.desc[fd]
    PROVE  Release(s, fd).posted = s.posted
<1> DEFINE e == [d EXCEPT ![p] = s.desc]
           i == s.desc[fd]
           x == <<p, fd>>
           y == <<q, fd>>
           S == Held(H, e, Writing, i)
<1>1. /\ s.table \in [PipeIds -> PipeSlot] /\ s.desc \in Descs
      /\ GoodTable(s.table, e, H) /\ e[p][fd] = i /\ e[q][fd] = i
  BY DEF GoodState, States
<1>2. CASE ~ IsPipe(s.table, i)
  BY <1>2 DEF Release
<1>3. CASE IsPipe(s.table, i) /\ fd = "stdin"
  BY <1>1, <1>3 DEF Release, LastWriter, GoodState, States
<1>4. CASE IsPipe(s.table, i) /\ fd # "stdin"
  <2>1. x \in S /\ y \in S /\ x # y
    BY <1>1, <1>4 DEF Held, Fds, Writing
  <2>. HIDE DEF e, x, y
  <2>2. IsFiniteSet(S) /\ H \subseteq Procs \X Fds /\ s.table[i].writers = Cardinality(S)
    <3>1. H \subseteq Procs \X Fds /\ s.table[i].writers = Cardinality(S)
      BY <1>1, <1>4 DEF GoodTable, Balanced, IsPipe
    <3>. QED
      BY <3>1, HeldIsFinite
  <2>. HIDE DEF S
  <2>3. /\ IsFiniteSet(S \ {x}) /\ Cardinality(S \ {x}) = Cardinality(S) - 1
        /\ Cardinality(S) \in Nat /\ Cardinality(S \ {x}) \in Nat
    BY <2>1, <2>2, FS_RemoveElement, FS_CardinalityType
  <2>4. Cardinality(S \ {x}) # 0
    <3>1. y \in S \ {x}
      BY <2>1
    <3>. QED
      BY <2>3, <3>1, FS_EmptySet
  <2>5. ~ LastWriter(s.table, fd, i)
    BY <2>2, <2>3, <2>4 DEF LastWriter
  <2>. QED
    BY <1>4, <2>5 DEF Release, GoodState, States
<1>. QED
  BY <1>2, <1>3, <1>4

\* All is well so far, and what p has as fd is open.
Usable(s, fd) ==
    s.ok /\ (s.desc[fd] # Console => s.table[s.desc[fd]].active)

(* Registering an end writes no descriptor.                                *)
LEMMA RetainLeaves ==
    ASSUME NEW s \in States, NEW fd
    PROVE  /\ Retain(s, fd).desc = s.desc /\ Retain(s, fd).ok = s.ok
           /\ Retain(s, fd).posted = s.posted
  BY DEF Retain, States

(* Registering an end adds the descriptor to those counted.                *)
LEMMA RetainKeeps ==
    ASSUME DescriptorsAssumption, NEW d \in [Procs -> Descs], NEW p \in Procs,
           NEW s, NEW H, GoodState(s, d, p, H), NEW fd \in Fds, <<p, fd>> \notin H,
           Usable(s, fd)
    PROVE  /\ GoodState(Retain(s, fd), d, p, H \union {<<p, fd>>})
           /\ Retain(s, fd).desc = s.desc /\ Retain(s, fd).ok = s.ok
           /\ Retain(s, fd).posted = s.posted
<1> DEFINE e == [d EXCEPT ![p] = s.desc]
           i == s.desc[fd]
<1>1. /\ s.table \in [PipeIds -> PipeSlot] /\ s.desc \in Descs
      /\ s.ok \in BOOLEAN /\ s.posted \in BOOLEAN
      /\ GoodTable(s.table, e, H) /\ e[p][fd] = i
      /\ i \in PipeIds \union {Console}
  BY DEF GoodState, States, Descs
<1>. HIDE DEF e
<1>2. CASE ~ IsPipe(s.table, i)
  <2>1. i = Console
    BY <1>1, <1>2 DEF IsPipe, Usable
  <2>2. GoodTable(s.table, e, H \union {<<p, fd>>})
    BY <1>1, <2>1, ConsoleHeld
  <2>. QED
    BY <1>2, <2>2 DEF GoodState, States, e, Retain
<1>3. CASE IsPipe(s.table, i)
  <2> DEFINE u == Registered(s.table, fd, i)
  <2>1. GoodTable(u, e, H \union {<<p, fd>>})
    BY <1>1, <1>3, Registers DEF IsPipe
  <2>2. u \in [PipeIds -> PipeSlot]
    BY <2>1 DEF GoodTable
  <2>3. Retain(s, fd) = [s EXCEPT !.table = u]
    BY <1>3 DEF Retain, Usable
  <2>. HIDE DEF u
  <2>. QED
    BY <1>1, <2>1, <2>2, <2>3 DEF GoodState, States, e
<1>. QED
  BY <1>2, <1>3

\* p gives up what it had as fd and takes another descriptor, not registered yet.
LEMMA Redirects ==
    ASSUME NEW d \in [Procs -> Descs], NEW p \in Procs, NEW s, NEW H,
           NEW fd \in Fds, <<p, fd>> \notin H, GoodState(s, d, p, H),
           NEW to \in PipeIds \union {Console}
    PROVE  GoodState([s EXCEPT !.desc[fd] = to], d, p, H)
<1> DEFINE desc == [s.desc EXCEPT ![fd] = to]
           e == [d EXCEPT ![p] = s.desc]
           f == [d EXCEPT ![p] = desc]
<1>1. /\ s \in States
      /\ s.desc \in Descs
      /\ desc \in Descs /\ GoodTable(s.table, e, H) /\ H \subseteq Procs \X Fds
  BY DEF GoodState, States, Descs, GoodTable
<1>2. \A g \in Fds \ {fd} : desc[g] = s.desc[g]
  BY <1>1 DEF Descs
<1>3. [s EXCEPT !.desc[fd] = to] = [s EXCEPT !.desc = desc]
  BY <1>1
<1>. HIDE DEF desc
<1>4. \A h \in H : h \in Procs \X Fds /\ (h[1] = p => h[2] # fd)
  BY <1>1
<1>5. f \in [Procs -> Descs] /\ \A h \in H : f[h[1]][h[2]] = e[h[1]][h[2]]
  BY <1>1, <1>2, <1>4
<1>. HIDE DEF e, f
<1>6. GoodTable(s.table, f, H)
  BY <1>1, <1>5, OthersChange
<1>. QED
  BY <1>1, <1>3, <1>6 DEF GoodState, States, f

(* An override moves one count from the old pipe to the new one.           *)
LEMMA SetDescriptorKeeps ==
    ASSUME DescriptorsAssumption, NEW d \in [Procs -> Descs], NEW p \in Procs,
           NEW s, NEW H, GoodState(s, d, p, H), NEW fd \in Fds, <<p, fd>> \in H,
           NEW q \in Procs, q # p, <<q, fd>> \in H, d[q][fd] = s.desc[fd],
           NEW want \in {Inherit, Console} \union PipeIds
    PROVE  /\ GoodState(SetDescriptor(s, fd, want), d, p, H)
           /\ SetDescriptor(s, fd, want).posted = s.posted
           /\ \A g \in Fds \ {fd} : SetDescriptor(s, fd, want).desc[g] = s.desc[g]
<1> DEFINE x == <<p, fd>>
           r == Release(s, fd)
           t == SetDescriptor(s, fd, want)
<1>1. /\ GoodState(r, d, p, H \ {x}) /\ r.desc = s.desc /\ r.ok = s.ok
      /\ r.posted = s.posted /\ x \notin H \ {x} /\ (H \ {x}) \union {x} = H
  BY ReleaseKeeps, ReleaseOfShared
<1>2. /\ r.table \in [PipeIds -> PipeSlot] /\ r.desc \in Descs /\ s.desc \in Descs
      /\ r \in States
  BY <1>1 DEF GoodState, States
<1>. HIDE DEF r, x
<1>3. CASE ~ s.ok \/ want \in {Inherit, s.desc[fd]}
  <2>1. t = s
    BY <1>3 DEF SetDescriptor
  <2>. QED
    BY <2>1
<1>4. CASE s.ok /\ want \notin {Inherit, s.desc[fd]} /\ want = Console
  <2>1. t = [r EXCEPT !.desc[fd] = Console]
    BY <1>4 DEF SetDescriptor, r
  <2>2. GoodState(t, d, p, H \ {x})
    BY <1>1, <2>1, Redirects DEF x
  <2>3. /\ t.desc[fd] = Console /\ t.table = r.table /\ t.posted = s.posted
        /\ \A g \in Fds \ {fd} : t.desc[g] = s.desc[g]
    BY <1>1, <1>2, <2>1 DEF Descs
  <2>. HIDE DEF t
  <2>4. GoodState(t, d, p, H)
    <3> DEFINE e == [d EXCEPT ![p] = t.desc]
    <3>1. GoodTable(t.table, e, H \ {x}) /\ e[p][fd] = Console
      BY <2>2, <2>3 DEF GoodState, States
    <3>. HIDE DEF e
    <3>2. GoodTable(t.table, e, H)
      BY <1>1, <3>1, ConsoleHeld DEF x
    <3>. QED
      BY <2>2, <3>2 DEF GoodState, States, e
  <2>. QED
    BY <2>3, <2>4 DEF t
<1>5. CASE /\ s.ok /\ want \notin {Inherit, s.desc[fd]} /\ want # Console
           /\ IsPipe(r.table, want)
  <2> DEFINE a == [r EXCEPT !.desc[fd] = want]
             u == Registered(r.table, fd, want)
  <2>1. GoodState(a, d, p, H \ {x}) /\ want \in PipeIds /\ r.table[want].active
    BY <1>1, <1>5, Redirects DEF x, IsPipe
  <2>2. /\ a.desc[fd] = want /\ a.table = r.table /\ a.posted = s.posted
        /\ a \in States
        /\ \A g \in Fds \ {fd} : a.desc[g] = s.desc[g]
    BY <1>1, <1>2, <2>1 DEF Descs, GoodState, States
  <2>3. t = [a EXCEPT !.table = u]
    <3>1. t = [r EXCEPT !.table = u, !.desc[fd] = want]
      BY <1>5 DEF SetDescriptor, r
    <3>. QED
      BY <1>2, <3>1
  <2>. HIDE DEF a, t
  <2>4. GoodState(t, d, p, H)
    <3> DEFINE e == [d EXCEPT ![p] = a.desc]
               G == H \ {x}
    <3>1. GoodTable(r.table, e, G) /\ e[p][fd] = want
      BY <2>1, <2>2 DEF GoodState, States
    <3>2. <<p, fd>> \notin G /\ G \union {<<p, fd>>} = H
      BY DEF x
    <3>. HIDE DEF e, G
    <3>3. GoodTable(Registered(r.table, fd, want), e, G \union {<<p, fd>>})
      BY <2>1, <3>1, <3>2, Registers
    <3>4. GoodTable(u, e, H)
      BY <3>2, <3>3
    <3>5. u \in [PipeIds -> PipeSlot]
      BY <3>4 DEF GoodTable
    <3>. QED
      BY <2>2, <2>3, <3>4, <3>5 DEF GoodState, States, e
  <2>. QED
    BY <2>2, <2>3, <2>4 DEF t
<1>6. CASE /\ s.ok /\ want \notin {Inherit, s.desc[fd]} /\ want # Console
           /\ ~ IsPipe(r.table, want)
  <2> DEFINE a == Retain(r, fd)
  <2>1. t = [a EXCEPT !.ok = FALSE]
    BY <1>6 DEF SetDescriptor, r
  <2>2. Usable(r, fd)
    <3> DEFINE e == [d EXCEPT ![p] = r.desc]
    <3>1. GoodTable(r.table, e, H \ {x}) /\ e[q][fd] = r.desc[fd]
      BY <1>1 DEF GoodState, States
    <3>2. <<q, fd>> \in H \ {x}
      BY DEF x
    <3>. HIDE DEF e
    <3>. QED
      BY <1>1, <1>6, <3>1, <3>2 DEF GoodTable, Balanced, Usable
  <2>3. GoodState(a, d, p, (H \ {x}) \union {x}) /\ a.desc = s.desc /\ a.posted = s.posted
    <3>1. <<p, fd>> \notin H \ {x}
      BY DEF x
    <3>. QED
      BY <1>1, <2>2, <3>1, RetainKeeps DEF x
  <2>. HIDE DEF a, t
  <2>. QED
    BY <1>1, <2>1, <2>3 DEF GoodState, States, t
<1>. QED
  BY <1>3, <1>4, <1>5, <1>6

Own(p) == {<<p, fd>> : fd \in Fds}

\* release_process_io_resources leaves no descriptor of p.
LEMMA ReleasesAll ==
    ASSUME DescriptorsAssumption, NEW d \in [Procs -> Descs], NEW p \in Procs,
           NEW s, NEW H, GoodState(s, d, p, H), Own(p) \subseteq H
    PROVE  GoodState(release_process_io_resources(s), d, p, H \ Own(p))
<1> DEFINE s1 == Release(s, "stdin")
           s2 == Release(s1, "stdout")
           s3 == Release(s2, "stderr")
           H1 == H \ {<<p, "stdin">>}
           H2 == H1 \ {<<p, "stdout">>}
           H3 == H2 \ {<<p, "stderr">>}
           r == [s3 EXCEPT !.desc = init_process_io_defaults]
           e == [d EXCEPT ![p] = s3.desc]
           f == [d EXCEPT ![p] = init_process_io_defaults]
<1>1. Fds = {"stdin", "stdout", "stderr"}
  BY DEF Fds
<1>2. <<p, "stdin">> \in H /\ <<p, "stdout">> \in H1 /\ <<p, "stderr">> \in H2
  BY <1>1 DEF Own
<1>3. H3 = H \ Own(p)
  BY <1>1 DEF Own
<1>. HIDE DEF s1, s2, s3, H1, H2, H3
<1>4. GoodState(s1, d, p, H1)
  BY <1>1, <1>2, ReleaseKeeps DEF s1, H1
<1>5. GoodState(s2, d, p, H2)
  BY <1>1, <1>2, <1>4, ReleaseKeeps DEF s2, H2
<1>6. GoodState(s3, d, p, H3)
  BY <1>1, <1>2, <1>5, ReleaseKeeps DEF s3, H3
<1>7. /\ init_process_io_defaults \in Descs /\ f \in [Procs -> Descs]
      /\ s3 \in States
      /\ GoodTable(s3.table, e, H3)
  BY <1>6 DEF init_process_io_defaults, Descs, GoodState, States
<1>8. \A h \in H3 : h \in Procs \X Fds /\ h[1] # p
  <2>1. H3 \subseteq Procs \X Fds
    BY <1>7 DEF GoodTable
  <2>2. ASSUME NEW h \in H3, h[1] = p
        PROVE  FALSE
    <3>1. h = <<p, h[2]>> /\ h[2] \in Fds
      BY <2>1, <2>2
    <3>. QED
      BY <1>3, <3>1 DEF Own
  <2>. QED
    BY <2>1, <2>2
<1>9. \A h \in H3 : f[h[1]][h[2]] = e[h[1]][h[2]]
  BY <1>8
<1>. HIDE DEF e, f
<1>10. GoodTable(s3.table, f, H3)
  BY <1>7, <1>9, OthersChange
<1>11. release_process_io_resources(s) = r
  BY DEF release_process_io_resources, s1, s2, s3
<1>12. /\ r \in States
       /\ r.table = s3.table /\ r.desc = init_process_io_defaults
  BY <1>7 DEF States
<1>. QED
  BY <1>3, <1>10, <1>11, <1>12 DEF GoodState, States, f

(* An inherited end is open, as the parent has it.                         *)
LEMMA SharedIsOpen ==
    ASSUME NEW d \in [Procs -> Descs], NEW p \in Procs, NEW s, NEW H, GoodState(s, d, p, H),
           NEW q \in Procs, q # p, NEW fd, <<q, fd>> \in H, d[q][fd] = s.desc[fd],
           s.ok
    PROVE  Usable(s, fd)
<1> DEFINE e == [d EXCEPT ![p] = s.desc]
<1>1. GoodTable(s.table, e, H) /\ e[q][fd] = s.desc[fd]
  BY DEF GoodState, States
<1>. HIDE DEF e
<1>. QED
  BY <1>1 DEF GoodTable, Balanced, Usable

\* retain_process_io_resources registers what p got from q.
LEMMA RetainsAll ==
    ASSUME DescriptorsAssumption, NEW d \in [Procs -> Descs], NEW p \in Procs,
           NEW s, NEW H, GoodState(s, d, p, H), Own(p) \cap H = {}, s.ok,
           NEW q \in Procs, q # p, Own(q) \subseteq H, s.desc = d[q]
    PROVE  /\ GoodState(retain_process_io_resources(s), d, p, H \union Own(p))
           /\ retain_process_io_resources(s).desc = s.desc
           /\ retain_process_io_resources(s).posted = s.posted
<1> DEFINE s1 == Retain(s, "stdin")
           s2 == Retain(s1, "stdout")
           s3 == Retain(s2, "stderr")
           H1 == H \union {<<p, "stdin">>}
           H2 == H1 \union {<<p, "stdout">>}
           H3 == H2 \union {<<p, "stderr">>}
<1>0. "stdin" \in Fds /\ "stdout" \in Fds /\ "stderr" \in Fds
  BY DEF Fds
<1>1. Fds = {"stdin", "stdout", "stderr"}
  BY DEF Fds
<1>2. <<p, "stdin">> \notin H /\ <<p, "stdout">> \notin H1 /\ <<p, "stderr">> \notin H2
  BY <1>1 DEF Own
<1>3. H3 = H \union Own(p)
  BY <1>1 DEF Own
<1>4. \A fd \in Fds : <<q, fd>> \in H /\ <<q, fd>> \in H1 /\ <<q, fd>> \in H2
  BY DEF Own
<1>5. retain_process_io_resources(s) = s3
  BY DEF retain_process_io_resources
<1>. HIDE DEF s1, s2, s3, H1, H2, H3
<1>6. GoodState(s1, d, p, H1) /\ s1.desc = s.desc /\ s1.ok = s.ok /\ s1.posted = s.posted
  <2>1. Usable(s, "stdin")
    BY <1>1, <1>4, SharedIsOpen
  <2>2. GoodState(Retain(s, "stdin"), d, p, H \union {<<p, "stdin">>})
    BY <1>0, <1>2, <2>1, RetainKeeps
  <2>3. s \in States
    BY DEF GoodState, States
  <2>. QED
    BY <2>2, <2>3, RetainLeaves DEF s1, H1
<1>7. GoodState(s2, d, p, H2) /\ s2.desc = s.desc /\ s2.ok = s.ok /\ s2.posted = s.posted
  <2>1. Usable(s1, "stdout")
    BY <1>1, <1>4, <1>6, SharedIsOpen
  <2>2. GoodState(Retain(s1, "stdout"), d, p, H1 \union {<<p, "stdout">>})
    BY <1>0, <1>2, <1>6, <2>1, RetainKeeps
  <2>3. s1 \in States
    BY <1>6 DEF GoodState, States
  <2>. QED
    BY <1>6, <2>2, <2>3, RetainLeaves DEF s2, H2
<1>8. GoodState(s3, d, p, H3) /\ s3.desc = s.desc /\ s3.posted = s.posted
  <2>1. Usable(s2, "stderr")
    BY <1>1, <1>4, <1>7, SharedIsOpen
  <2>2. GoodState(Retain(s2, "stderr"), d, p, H2 \union {<<p, "stderr">>})
    BY <1>0, <1>2, <1>7, <2>1, RetainKeeps
  <2>3. s2 \in States
    BY <1>7 DEF GoodState, States
  <2>. QED
    BY <1>7, <2>2, <2>3, RetainLeaves DEF s3, H3
<1>. QED
  BY <1>3, <1>5, <1>8

\* override_process_io, on what p got from q.
LEMMA Overrides ==
    ASSUME DescriptorsAssumption, NEW d \in [Procs -> Descs], NEW p \in Procs,
           NEW s, NEW H, GoodState(s, d, p, H), Own(p) \subseteq H,
           NEW q \in Procs, q # p, Own(q) \subseteq H, s.desc = d[q],
           NEW config \in Configs
    PROVE  /\ GoodState(override_process_io(s, config), d, p, H)
           /\ override_process_io(s, config).posted = s.posted
<1> DEFINE s1 == SetDescriptor(s, "stdin", config.stdin)
           s2 == SetDescriptor(s1, "stdout", config.stdout)
           s3 == SetDescriptor(s2, "stderr", config.stderr)
<1>1. Fds = {"stdin", "stdout", "stderr"}
  BY DEF Fds
<1>2. \A fd \in Fds : <<p, fd>> \in H /\ <<q, fd>> \in H
  BY DEF Own
<1>3. /\ config.stdin \in {Inherit, Console} \union PipeIds
      /\ config.stdout \in {Inherit, Console} \union PipeIds
      /\ config.stderr \in {Inherit, Console} \union PipeIds
  BY <1>1 DEF Configs
<1>4. override_process_io(s, config) = s3
  BY DEF override_process_io
<1>. HIDE DEF s1, s2, s3
<1>5. /\ GoodState(s1, d, p, H) /\ s1.posted = s.posted
      /\ s1.desc["stdout"] = d[q]["stdout"] /\ s1.desc["stderr"] = d[q]["stderr"]
  <2>1. d[q]["stdin"] = s.desc["stdin"]
    OBVIOUS
  <2>. QED
    BY <1>1, <1>2, <1>3, <2>1, SetDescriptorKeeps DEF s1
<1>6. /\ GoodState(s2, d, p, H) /\ s2.posted = s.posted
      /\ s2.desc["stderr"] = d[q]["stderr"]
  BY <1>1, <1>2, <1>3, <1>5, SetDescriptorKeeps, SMTT(30) DEF s2
<1>7. GoodState(s3, d, p, H) /\ s3.posted = s.posted
  BY <1>1, <1>2, <1>3, <1>6, SetDescriptorKeeps DEF s3
<1>. QED
  BY <1>4, <1>7

-----------------------------------------------------------------------------
(* The steps *)

LEMMA NowIsGood ==
    ASSUME DescriptorsAssumption, IoInv
    PROVE  /\ GoodTable(pipes, io, alive \X Fds) /\ io \in [Procs -> Descs]
           /\ alive \subseteq Procs
  BY DEF IoInv, IoTypeOK, GoodTable, Descs

(* What a handler leaves is the invariant again.                           *)
LEMMA NextIsGood ==
    ASSUME GoodTable(pipes', io', (alive \X Fds)'), alive' \subseteq Procs,
           Init0 \in alive', switched' \in BOOLEAN, ~ switched'
    PROVE  IoInv'
  BY DEF IoInv, IoTypeOK, GoodTable, Descs, NoSwitchInCreation

(* A creation, refused or not.                                             *)
LEMMA Creates ==
    ASSUME DescriptorsAssumption, IoInv, NEW child \in Procs, NEW parent \in Procs,
           NEW config \in Configs, NEW noMemory \in BOOLEAN,
           create_process_internal(child, parent, config, noMemory)
    PROVE  IoInv'
<1> DEFINE H == alive \X Fds
           s == [table |-> pipes, desc |-> io[parent], ok |-> TRUE, posted |-> FALSE]
           kept == retain_process_io_resources(s)
           opened == Opened(parent, config)
           failed == noMemory \/ ~ opened.ok
           final == IF failed THEN release_process_io_resources(opened) ELSE opened
<1>1. /\ parent \in alive /\ child \notin alive /\ pipes' = final.table
      /\ io' = [io EXCEPT ![child] = final.desc]
      /\ alive' = IF failed THEN alive ELSE alive \union {child}
      /\ switched' = (switched \/ opened.posted)
  BY DEF create_process_internal
<1>2. Own(parent) \subseteq H /\ Own(child) \cap H = {} /\ parent # child
  BY <1>1 DEF Own
<1>3. GoodState(s, io, child, H)
  <2> DEFINE e == [io EXCEPT ![child] = io[parent]]
  <2>1. e \in [Procs -> Descs] /\ \A h \in H : e[h[1]][h[2]] = io[h[1]][h[2]]
    BY <1>1, NowIsGood
  <2>. HIDE DEF e
  <2>2. GoodTable(pipes, e, H)
    BY <2>1, NowIsGood, OthersChange
  <2>3. /\ s \in States
        /\ s.table = pipes /\ s.desc = io[parent]
    BY NowIsGood DEF GoodTable, States
  <2>. QED
    BY <2>2, <2>3 DEF GoodState, States, e
<1>4. s.ok /\ s.desc = io[parent] /\ s.posted = FALSE
  OBVIOUS
<1>5. opened = override_process_io(kept, config)
  BY DEF Opened
<1>. HIDE DEF s, kept, opened
<1>6. /\ GoodState(kept, io, child, H \union Own(child)) /\ kept.desc = io[parent]
      /\ kept.posted = FALSE
  BY <1>2, <1>3, <1>4, NowIsGood, RetainsAll DEF kept
<1>7. GoodState(opened, io, child, H \union Own(child)) /\ opened.posted = FALSE
  BY <1>2, <1>5, <1>6, NowIsGood, Overrides
<1>8. CASE failed
  <2>1. GoodState(final, io, child, (H \union Own(child)) \ Own(child))
    BY <1>7, <1>8, NowIsGood, ReleasesAll
  <2>2. (H \union Own(child)) \ Own(child) = (alive \X Fds)'
    BY <1>1, <1>2, <1>8
  <2>3. GoodTable(pipes', io', (alive \X Fds)')
    BY <1>1, <2>1, <2>2 DEF GoodState, States
  <2>. QED
    BY <1>1, <1>7, <1>8, <2>3, NowIsGood, NextIsGood
       DEF IoInv, IoTypeOK, NoSwitchInCreation
<1>9. CASE ~ failed
  <2>1. H \union Own(child) = (alive \X Fds)'
    BY <1>1, <1>9 DEF Own
  <2>2. GoodTable(pipes', io', (alive \X Fds)')
    BY <1>1, <1>7, <1>9, <2>1 DEF GoodState, States
  <2>. QED
    BY <1>1, <1>7, <1>9, <2>2, NowIsGood, NextIsGood
       DEF IoInv, IoTypeOK, NoSwitchInCreation
<1>. QED
  BY <1>8, <1>9

(* The end of a process gives back its descriptors.                        *)
LEMMA Terminates ==
    ASSUME DescriptorsAssumption, IoInv, NEW p \in Procs, p # Init0, terminate_process(p)
    PROVE  IoInv'
<1> DEFINE s == [table |-> pipes, desc |-> io[p], ok |-> TRUE, posted |-> FALSE]
           r == release_process_io_resources(s)
           H == alive \X Fds
<1>1. /\ p \in alive /\ pipes' = r.table /\ io' = [io EXCEPT ![p] = r.desc]
      /\ alive' = alive \ {p} /\ switched' = switched
  BY DEF terminate_process
<1>2. GoodState(s, io, p, H)
  <2>1. [io EXCEPT ![p] = io[p]] = io
    BY NowIsGood
  <2>2. s \in States
    BY NowIsGood DEF GoodTable, States
  <2>. QED
    BY <2>1, <2>2, NowIsGood DEF GoodState, States
<1>3. Own(p) \subseteq H /\ H \ Own(p) = (alive \X Fds)'
  BY <1>1 DEF Own
<1>. HIDE DEF s
<1>4. GoodState(r, io, p, H \ Own(p))
  BY <1>2, <1>3, NowIsGood, ReleasesAll
<1>. HIDE DEF r, H
<1>5. GoodTable(pipes', io', (alive \X Fds)')
  BY <1>1, <1>3, <1>4 DEF GoodState, States
<1>. QED
  BY <1>1, <1>5, NowIsGood, NextIsGood DEF IoInv, IoTypeOK, NoSwitchInCreation

\* A read or a write changes nothing but the bytes.
LEMMA MovesBytes ==
    ASSUME DescriptorsAssumption, IoInv, NEW i \in PipeIds, NEW b \in Seq(Procs),
           pipes' = [pipes EXCEPT ![i].bytes = b], UNCHANGED <<io, alive, switched>>
    PROVE  IoInv'
<1>1. pipes \in [PipeIds -> PipeSlot]
  BY NowIsGood DEF GoodTable
<1>2. /\ pipes' \in [PipeIds -> PipeSlot]
      /\ \A j \in PipeIds : /\ pipes'[j].active = pipes[j].active
                            /\ pipes'[j].readers = pipes[j].readers
                            /\ pipes'[j].writers = pipes[j].writers
  <2> DEFINE v == [pipes[i] EXCEPT !.bytes = b]
  <2>1. /\ v \in PipeSlot /\ v.active = pipes[i].active
        /\ v.readers = pipes[i].readers /\ v.writers = pipes[i].writers
    BY <1>1 DEF PipeSlot
  <2>2. pipes' = [pipes EXCEPT ![i] = v]
    OBVIOUS
  <2>. HIDE DEF v
  <2>. QED
    BY <1>1, <2>1, <2>2
<1>3. \A h \in alive \X Fds : io[h[1]][h[2]] # Console => io[h[1]][h[2]] \in PipeIds
  BY NowIsGood DEF Descs
<1>4. GoodTable(pipes', io, alive \X Fds)
  BY <1>2, <1>3, NowIsGood, ZenonT(30) DEF GoodTable, Balanced
<1>. QED
  BY <1>4, NowIsGood, NextIsGood DEF IoInv, IoTypeOK, NoSwitchInCreation

(* A pipe is opened by the descriptors it will be given to.                *)
LEMMA OpensPipe ==
    ASSUME DescriptorsAssumption, IoInv, NEW n \in PipeNames, sys_pipe_open(n)
    PROVE  IoInv'
<1> DEFINE H == alive \X Fds
<1>1. PICK i \in OpenAt(pipes, n) : pipes' = pipe_open(pipes, n, i)
  BY DEF sys_pipe_open
<1>2. i \in PipeIds /\ pipes \in [PipeIds -> PipeSlot]
  BY <1>1, NowIsGood DEF OpenAt, find_pipe, FreePipes, GoodTable
<1>3. CASE pipes[i].active
  BY <1>1, <1>3, NowIsGood, NextIsGood
     DEF pipe_open, sys_pipe_open, IoInv, IoTypeOK, NoSwitchInCreation
<1>4. CASE ~ pipes[i].active
  <2> DEFINE v == [FreeSlot EXCEPT !.name = n, !.active = TRUE]
  <2>1. pipes' = [pipes EXCEPT ![i] = v]
    BY <1>1, <1>4 DEF pipe_open
  <2>2. v \in PipeSlot /\ v.active /\ v.readers = 0 /\ v.writers = 0
    <3>1. FreeSlot \in PipeSlot /\ FreeSlot.readers = 0 /\ FreeSlot.writers = 0
      BY SlotIsFree DEF FreeSlot
    <3>. QED
      BY <3>1 DEF PipeSlot
  <2>. HIDE DEF v
  <2>3. \A h \in H : io[h[1]][h[2]] \in (PipeIds \ {i}) \union {Console}
    BY <1>2, <1>4, NowIsGood DEF GoodTable, Balanced, Descs, PipeIds, Console
  <2>4. \A fds : Held(H, io, fds, i) = {}
    BY <1>2, <2>3 DEF Held, PipeIds, Console
  <2>5. Cardinality({}) = 0
    BY FS_EmptySet
  <2>6. GoodTable(pipes', io, H)
    <3>1. pipes' \in [PipeIds -> PipeSlot] /\ \A j \in PipeIds \ {i} : pipes'[j] = pipes[j]
      BY <1>2, <2>1, <2>2
    <3>2. pipes'[i] = v
      BY <1>2, <2>1
    <3>. HIDE DEF H
    <3>. QED
      BY <2>2, <2>3, <2>4, <2>5, <3>1, <3>2, NowIsGood, ZenonT(30)
         DEF GoodTable, Balanced, H
  <2>. QED
    BY <2>6, NowIsGood, NextIsGood DEF sys_pipe_open, IoInv, IoTypeOK, NoSwitchInCreation
<1>. QED
  BY <1>3, <1>4

(* IoInv is inductive.                                                     *)
LEMMA IoStep == ASSUME DescriptorsAssumption, IoInv, [IoNext]_ioVars PROVE IoInv'
<1>1. ASSUME NEW n \in PipeNames, sys_pipe_open(n)
      PROVE  IoInv'
  BY <1>1, OpensPipe
<1>2. ASSUME NEW i \in PipeIds, sys_pipe_close(i)
      PROVE  IoInv'
  <2>1. GoodTable(pipes', io, alive \X Fds)
    BY <1>2, NowIsGood, Destroys DEF sys_pipe_close
  <2>. QED
    BY <1>2, <2>1, NowIsGood, NextIsGood
       DEF sys_pipe_close, IoInv, IoTypeOK, NoSwitchInCreation
<1>3. ASSUME NEW child \in Procs, NEW parent \in Procs, NEW config \in Configs,
             NEW noMemory \in BOOLEAN,
             create_process_internal(child, parent, config, noMemory)
      PROVE  IoInv'
  BY <1>3, Creates
<1>4. ASSUME NEW p \in Procs, p # Init0, terminate_process(p)
      PROVE  IoInv'
  BY <1>4, Terminates
<1>5. ASSUME NEW p \in Procs, process_read(p)
      PROVE  IoInv'
  <2> DEFINE i == io[p]["stdin"]
  <2>1. i \in PipeIds /\ pipes[i].bytes # <<>>
    BY <1>5 DEF process_read, Readable, IsPipe
  <2>2. Tail(pipes[i].bytes) \in Seq(Procs)
    BY <2>1, NowIsGood DEF GoodTable, PipeSlot
  <2>. QED
    BY <1>5, <2>1, <2>2, MovesBytes DEF process_read
<1>6. ASSUME NEW p \in Procs, NEW fd \in {"stdout", "stderr"}, process_write(p, fd)
      PROVE  IoInv'
  <2> DEFINE i == io[p][fd]
  <2>1. i \in PipeIds
    BY <1>6 DEF process_write, Writable, IsPipe
  <2>2. Append(pipes[i].bytes, p) \in Seq(Procs)
    BY <2>1, NowIsGood DEF GoodTable, PipeSlot
  <2>. QED
    BY <1>6, <2>1, <2>2, MovesBytes DEF process_write
<1>7. CASE UNCHANGED ioVars
  BY <1>7 DEF ioVars, IoInv, IoTypeOK, Balanced, NoSwitchInCreation
<1>. QED
  BY <1>1, <1>2, <1>3, <1>4, <1>5, <1>6, <1>7 DEF IoNext

(* The first process has the console only.                                 *)
LEMMA IoBegins == ASSUME DescriptorsAssumption, IoInit PROVE IoInv
<1>1. pipes \in [PipeIds -> PipeSlot] /\ \A i \in PipeIds : ~ pipes[i].active
  BY SlotIsFree DEF IoInit, FreeSlot
<1>2. io \in [Procs -> Descs] /\ \A p \in Procs, fd \in Fds : io[p][fd] = Console
  BY DEF IoInit, init_process_io_defaults, Descs
<1>3. alive \subseteq Procs /\ Init0 \in alive /\ switched = FALSE
  BY DEF IoInit, DescriptorsAssumption
<1>4. Balanced(pipes, io, alive \X Fds)
  BY <1>1, <1>2, <1>3 DEF Balanced
<1>. QED
  BY <1>1, <1>2, <1>3, <1>4 DEF IoInv, IoTypeOK, NoSwitchInCreation, Descs

(* The counts are those of the descriptors of the living.                  *)
LEMMA InvariantCounts == ASSUME DescriptorsAssumption, IoInv PROVE CountsAreDescriptors
<1>1. \A i : /\ Refer({"stdin"}, i) = Held(alive \X Fds, io, {"stdin"}, i)
             /\ Refer({"stdout", "stderr"}, i) = Held(alive \X Fds, io, Writing, i)
  BY DEF Refer, Held, Fds, Writing
<1>. QED
  BY <1>1 DEF IoInv, Balanced, CountsAreDescriptors

-----------------------------------------------------------------------------
(* The table of pipes counts the descriptors of the live processes, and      *)
(* none of those is of a free slot, after every step.                        *)
THEOREM IoInvHolds == ASSUME DescriptorsAssumption PROVE IoSpec => []IoInv
<1>1. IoInit => IoInv
  BY IoBegins
<1>2. IoInv /\ [IoNext]_ioVars => IoInv'
  BY IoStep
<1>. QED
  BY <1>1, <1>2, PTL DEF IoSpec

(* The counts of a pipe are the descriptors that refer to it, for any number *)
(* of processes and pipes and whatever create_process_internal is asked for  *)
(* and fails at: no end is left open behind, none is closed under anybody.   *)
THEOREM CountsMatch == ASSUME DescriptorsAssumption PROVE IoSpec => []CountsAreDescriptors
<1>1. IoInv => CountsAreDescriptors
  BY InvariantCounts
<1>. QED
  BY <1>1, IoInvHolds, PTL

(* Handing descriptors to a new process and overriding them, as              *)
(* create_process_internal does under process_creation_lock, posts to no     *)
(* reader and so switches to nobody.                                         *)
THEOREM CreationKeepsTheCpu ==
    ASSUME DescriptorsAssumption PROVE IoSpec => []NoSwitchInCreation
<1>1. IoInv => NoSwitchInCreation
  BY DEF IoInv
<1>. QED
  BY <1>1, IoInvHolds, PTL

---------------------------------------------------------------------------
(* The memory of the processes *)

\* The slot being filled has no stack yet, who is to be cleaned up is dead, and
\* the CPU is on a stack.
MemInv ==
    /\ MemTypeOK
    /\ BlocksHaveOneOwner
    /\ job # NoJob => job.slot \in Slots /\ slot[job.slot].stack = {}
    /\ pending # NoSlot => slot[pending].state = "TERMINATED"
    /\ current # Idle => slot[current].stack # {}

\* What is no slot, and a freed slot owns nothing.
LEMMA SlotFacts ==
    ASSUME MemoryAssumption
    PROVE  /\ Idle \notin Slots /\ NoSlot \notin Slots /\ NoJob.slot = NoSlot
           /\ FreedPCB \in PCB /\ Owned(FreedPCB) = {}
           /\ 0 \in 0 .. MaxArgs
<1>1. Idle \notin Slots /\ NoSlot \notin Slots /\ NoJob.slot = NoSlot /\ 0 \in 0 .. MaxArgs
  BY DEF MemoryAssumption, Idle, NoSlot, Slots, NoJob
<1>2. FreedPCB \in PCB
  BY <1>1 DEF FreedPCB, PCB
<1>3. Owned(FreedPCB) = {}
  BY DEF FreedPCB, Owned
<1>. QED
  BY <1>1, <1>2, <1>3

(* What a process gives back is its own.                                   *)
LEMMA ReleasedIsOwned ==
    ASSUME MemoryAssumption, NEW p \in PCB
    PROVE  ArgumentBlocks(p) \cup p.stack \subseteq Owned(p)
<1>1. p.argc \in 0 .. MaxArgs
  BY DEF PCB
<1>2. \A i \in 1 .. p.argc : i \in Indices
  BY <1>1 DEF Indices, MemoryAssumption
<1>. QED
  BY <1>2 DEF ArgumentBlocks, Owned

(* One slot is filled or emptied: the blocks it gains were free, those it  *)
(* gives back its own.                                                     *)
LEMMA OneSlotChanges ==
    ASSUME MemTypeOK, BlocksHaveOneOwner, NEW s \in Slots, NEW q \in PCB,
           NEW gained \in SUBSET (Blocks \ used), NEW freed \in SUBSET Owned(slot[s]),
           Owned(q) \subseteq (Owned(slot[s]) \ freed) \cup gained,
           slot' = [slot EXCEPT ![s] = q], used' = (used \ freed) \cup gained
    PROVE  /\ BlocksHaveOneOwner' /\ used' \subseteq Blocks
           /\ slot' \in [Slots -> PCB]
           /\ slot'[s] = q /\ \A t \in Slots : t # s => slot'[t] = slot[t]
<1>1. /\ slot \in [Slots -> PCB] /\ used \subseteq Blocks
      /\ \A t, u \in Slots : t # u => Owned(slot[t]) \cap Owned(slot[u]) = {}
      /\ \A t \in Slots : Owned(slot[t]) \subseteq used
  BY DEF MemTypeOK, BlocksHaveOneOwner
<1>2. /\ slot' \in [Slots -> PCB] /\ slot'[s] = q
      /\ \A t \in Slots : t # s => slot'[t] = slot[t]
  BY <1>1
<1>3. \A t \in Slots : t # s =>
         /\ Owned(slot'[t]) = Owned(slot[t])
         /\ Owned(slot[t]) \cap Owned(q) = {}
         /\ Owned(slot[t]) \subseteq used'
  BY <1>1, <1>2
<1>4. Owned(q) \subseteq used'
  BY <1>1
<1>5. Owned(slot'[s]) = Owned(q)
  BY <1>2
<1>6. \A t, u \in Slots : t # u => Owned(slot'[t]) \cap Owned(slot'[u]) = {}
  BY <1>1, <1>3, <1>5
<1>7. \A t \in Slots : Owned(slot'[t]) \subseteq used'
  BY <1>3, <1>4, <1>5
<1>. QED
  BY <1>1, <1>2, <1>6, <1>7 DEF BlocksHaveOneOwner

(* The slots of S give all back.                                           *)
LEMMA SlotsAreReleased ==
    ASSUME MemoryAssumption, MemTypeOK, BlocksHaveOneOwner, NEW S \in SUBSET Slots,
           slot' \in [Slots -> PCB],
           \A t \in Slots : IF t \in S THEN Owned(slot'[t]) = {} ELSE slot'[t] = slot[t],
           used' = used \ ReleasedBlocks(S)
    PROVE  BlocksHaveOneOwner' /\ used' \subseteq Blocks
<1>1. /\ slot \in [Slots -> PCB] /\ used \subseteq Blocks
      /\ \A t, u \in Slots : t # u => Owned(slot[t]) \cap Owned(slot[u]) = {}
      /\ \A t \in Slots : Owned(slot[t]) \subseteq used
  BY DEF MemTypeOK, BlocksHaveOneOwner
<1>2. \A t \in Slots \ S : Owned(slot[t]) \cap ReleasedBlocks(S) = {}
  <2>1. \A s \in S : ArgumentBlocks(slot[s]) \cup slot[s].stack \subseteq Owned(slot[s])
    BY <1>1, ReleasedIsOwned
  <2>2. ASSUME NEW t \in Slots \ S, NEW b \in Owned(slot[t]), b \in ReleasedBlocks(S)
        PROVE  FALSE
    <3>1. PICK s \in S : b \in ArgumentBlocks(slot[s]) \cup slot[s].stack
      BY <2>2 DEF ReleasedBlocks
    <3>2. b \in Owned(slot[s]) /\ s # t
      BY <2>1, <3>1
    <3>. QED
      BY <1>1, <3>2
  <2>. QED
    BY <2>2
<1>3. \A t \in Slots : Owned(slot'[t]) \subseteq Owned(slot[t]) /\ Owned(slot'[t]) \subseteq used'
  BY <1>1, <1>2
<1>4. \A t, u \in Slots : t # u => Owned(slot'[t]) \cap Owned(slot'[u]) = {}
  BY <1>1, <1>3
<1>. QED
  BY <1>1, <1>3, <1>4 DEF BlocksHaveOneOwner
(* Creation begins: the dead are reaped, the slot found is one of them.    *)
LEMMA BeginStep ==
    ASSUME MemoryAssumption, MemInv, CreateBegins
    PROVE  MemInv' /\ (current # Idle => slot'[current].stack # {})
<1>1. PICK argc \in 0 .. MaxArgs, s \in FirstFree :
         /\ job' = [slot |-> s, argc |-> argc, next |-> 0]
         /\ slot' = [t \in Slots |->
                        IF t = s THEN [FreedPCB EXCEPT !.state = "READY"]
                        ELSE IF t \in Reaped THEN FreedPCB ELSE slot[t]]
  BY DEF CreateBegins
<1>2. /\ job = NoJob /\ current' = current /\ cleanup' = cleanup
      /\ current # Idle => slot[current].state = "READY"
      /\ used' = used \ ReleasedBlocks(Reaped)
      /\ pending' = IF pending \in Reaped THEN NoSlot ELSE pending
  BY DEF CreateBegins
<1>3. /\ slot \in [Slots -> PCB] /\ current \in Slots \cup {Idle}
      /\ pending \in Slots \cup {NoSlot} /\ cleanup \in 0 .. CLEANUP_INTERVAL - 1
      /\ \A t \in Slots : slot[t].state = "READY" => slot[t].stack # {}
      /\ pending # NoSlot => slot[pending].state = "TERMINATED"
  BY <1>2, SlotFacts DEF MemInv, MemTypeOK
<1>4. s \in Dead /\ s \in Slots /\ s # current /\ s \in Reaped
  BY <1>2, SlotFacts DEF FirstFree, Dead, Reaped
<1> DEFINE q == [FreedPCB EXCEPT !.state = "READY"]
<1>5. q \in PCB /\ q.state = "READY" /\ q.stack = {} /\ Owned(q) = {}
  BY SlotFacts DEF FreedPCB, PCB, Owned
<1>6. /\ slot' \in [Slots -> PCB] /\ slot'[s] = q
      /\ \A t \in Slots \ {s} : slot'[t] = IF t \in Reaped THEN FreedPCB ELSE slot[t]
  BY <1>1, <1>3, <1>4, <1>5, SlotFacts
<1>. HIDE DEF q
<1>7. BlocksHaveOneOwner' /\ used' \subseteq Blocks
  <2>1. Reaped \in SUBSET Slots
    BY DEF Reaped, Dead
  <2>2. \A t \in Slots : IF t \in Reaped THEN Owned(slot'[t]) = {} ELSE slot'[t] = slot[t]
    BY <1>4, <1>5, <1>6, SlotFacts
  <2>. QED
    BY <1>2, <1>6, <2>1, <2>2, SlotsAreReleased DEF MemInv
<1>8. \A t \in Slots : slot'[t].state = "READY" /\ t # s =>
         slot[t].state = "READY" /\ slot'[t] = slot[t]
  BY <1>6 DEF FreedPCB
<1>9. current # Idle => slot'[current] = slot[current] /\ slot[current].stack # {}
  BY <1>2, <1>3, <1>4, <1>6 DEF Reaped, Dead
<1>10. pending' # NoSlot => slot'[pending'].state = "TERMINATED"
  <2>1. ASSUME pending' # NoSlot
        PROVE  pending' = pending /\ pending \in Dead /\ pending \notin Reaped
    BY <1>2, <1>3, <2>1 DEF Dead
  <2>2. ASSUME pending' # NoSlot
        PROVE  FALSE
    BY <1>2, <2>1, <2>2, SlotFacts DEF Reaped, Dead
  <2>. QED
    BY <2>2
<1>11. MemTypeOK'
  <2>1. job' \in [slot : Slots \cup {NoSlot}, argc : 0 .. MaxArgs, next : 0 .. MaxArgs + 1]
    BY <1>1, <1>4 DEF MemoryAssumption
  <2>2. \A t \in Slots : slot'[t].state = "READY" /\ t # job'.slot => slot'[t].stack # {}
    BY <1>1, <1>3, <1>8
  <2>3. pending' \in Slots \cup {NoSlot}
    BY <1>2, <1>3
  <2>. QED
    BY <1>2, <1>3, <1>6, <1>7, <2>1, <2>2, <2>3 DEF MemTypeOK
<1>12. job' # NoJob => job'.slot \in Slots /\ slot'[job'.slot].stack = {}
  BY <1>1, <1>4, <1>5, <1>6
<1>. QED
  BY <1>2, <1>7, <1>9, <1>10, <1>11, <1>12 DEF MemInv

(* A step of a creation under way changes the slot it fills, and no other. *)
LEMMA FillingStep ==
    ASSUME MemoryAssumption, MemInv, job # NoJob, NEW q \in PCB,
           NEW gained \in SUBSET (Blocks \ used),
           NEW freed \in SUBSET Owned(slot[job.slot]),
           Owned(q) \subseteq (Owned(slot[job.slot]) \ freed) \cup gained,
           slot' = [slot EXCEPT ![job.slot] = q], used' = (used \ freed) \cup gained,
           UNCHANGED <<current, pending, cleanup>>,
           slot[pending].state = "TERMINATED" /\ pending = job.slot
              => q.state = "TERMINATED",
           job' \in [slot : Slots \cup {NoSlot}, argc : 0 .. MaxArgs, next : 0 .. MaxArgs + 1],
           \/ job' # NoJob /\ job'.slot = job.slot /\ q.stack = {}
           \/ job' = NoJob /\ (q.state = "READY" => q.stack # {})
    PROVE  MemInv' /\ (current # Idle => slot'[current].stack # {})
<1>1. /\ slot \in [Slots -> PCB] /\ current \in Slots \cup {Idle} /\ job.slot \in Slots
      /\ pending \in Slots \cup {NoSlot} /\ cleanup \in 0 .. CLEANUP_INTERVAL - 1
      /\ \A t \in Slots : slot[t].state = "READY" /\ t # job.slot => slot[t].stack # {}
      /\ slot[job.slot].stack = {}
      /\ current # Idle => slot[current].stack # {}
      /\ pending # NoSlot => slot[pending].state = "TERMINATED"
  BY DEF MemInv, MemTypeOK
<1>2. /\ BlocksHaveOneOwner' /\ used' \subseteq Blocks /\ slot' \in [Slots -> PCB]
      /\ slot'[job.slot] = q /\ \A t \in Slots : t # job.slot => slot'[t] = slot[t]
  BY <1>1, OneSlotChanges DEF MemInv
<1>3. current # Idle => current # job.slot /\ slot'[current] = slot[current]
  BY <1>1, <1>2
<1>4. job' = NoJob => job'.slot \notin Slots
  BY SlotFacts
<1>5. \A t \in Slots : slot'[t].state = "READY" /\ t # job'.slot => slot'[t].stack # {}
  BY <1>1, <1>2, <1>4
<1>6. pending' # NoSlot => slot'[pending'].state = "TERMINATED"
  BY <1>1, <1>2
<1>7. MemTypeOK'
  BY <1>1, <1>2, <1>5 DEF MemTypeOK
<1>8. job' # NoJob => job'.slot \in Slots /\ slot'[job'.slot].stack = {}
  BY <1>1, <1>2
<1>. QED
  BY <1>1, <1>2, <1>3, <1>6, <1>7, <1>8 DEF MemInv
(* What an allocation hands out was free.                                  *)
LEMMA AllocationIsFree ==
    ASSUME NEW n, NEW B \in Allocations(n)
    PROVE  B \in SUBSET (Blocks \ used) /\ Cardinality(B) = n
  BY DEF Allocations

(* A creation gives back what it got, and leaves a free slot.              *)
LEMMA FailureStep ==
    ASSUME MemoryAssumption, MemInv, job # NoJob, CreationFails(slot[job.slot])
    PROVE  MemInv' /\ (current # Idle => slot'[current].stack # {})
<1> DEFINE p == slot[job.slot]
           r == release_process_arguments(p)
           q == [r EXCEPT !.state = "TERMINATED"]
           freed == ArgumentBlocks(p)
<1>1. job.slot \in Slots /\ p \in PCB /\ p.stack = {}
  BY DEF MemInv, MemTypeOK
<1>2. r \in PCB /\ r.stack = {} /\ Owned(r) \subseteq Owned(p) \ freed
  <2>1. CASE p.argv = {}
    BY <1>1, <2>1 DEF release_process_arguments, ArgumentBlocks
  <2>2. CASE p.argv # {}
    <3>1. r = [p EXCEPT !.argv = {}, !.argc = 0, !.args = [i \in Indices |-> {}]]
      BY <2>2 DEF release_process_arguments
    <3>2. r \in PCB /\ r.stack = {} /\ r.argv = {} /\ r.args = [i \in Indices |-> {}]
      BY <1>1, <3>1, SlotFacts DEF PCB
    <3>3. Owned(r) = {}
      BY <3>2 DEF Owned
    <3>. QED
      BY <3>2, <3>3
  <2>. QED
    BY <2>1, <2>2
<1>3. /\ q \in PCB /\ q.stack = {} /\ q.state = "TERMINATED" /\ Owned(q) = Owned(r)
  <2>1. /\ q \in PCB /\ q.state = "TERMINATED"
        /\ q.stack = r.stack /\ q.argv = r.argv /\ q.args = r.args
    BY <1>2 DEF PCB
  <2>. QED
    BY <1>2, <2>1 DEF Owned
<1>4. freed \in SUBSET Owned(p)
  BY <1>1, ReleasedIsOwned
<1>5. /\ slot' = [slot EXCEPT ![job.slot] = q] /\ used' = used \ freed
      /\ job' = NoJob /\ UNCHANGED <<current, pending, cleanup>>
  BY DEF CreationFails
<1>6. used' = (used \ freed) \cup {} /\ {} \in SUBSET (Blocks \ used)
  BY <1>5
<1>7. NoJob \in [slot : Slots \cup {NoSlot}, argc : 0 .. MaxArgs, next : 0 .. MaxArgs + 1]
  BY DEF NoJob, MemoryAssumption
<1>8. Owned(q) \subseteq (Owned(slot[job.slot]) \ freed) \cup {}
  BY <1>2, <1>3
<1>. HIDE DEF q, freed
<1>9. freed \in SUBSET Owned(slot[job.slot])
  BY <1>4
<1>. QED
  BY <1>3, <1>5, <1>6, <1>7, <1>8, <1>9, FillingStep

(* The array, an argument, the stack.                                      *)
LEMMA AllocationStep ==
    ASSUME MemoryAssumption, MemInv, AllocArray \/ CopyArgument \/ AllocStack
    PROVE  MemInv' /\ (current # Idle => slot'[current].stack # {})
<1> DEFINE p == slot[job.slot]
           Jobs == [slot : Slots \cup {NoSlot}, argc : 0 .. MaxArgs, next : 0 .. MaxArgs + 1]
<1>1. /\ job # NoJob /\ job.slot \in Slots /\ p \in PCB /\ p.stack = {}
      /\ job \in Jobs /\ NoJob \in Jobs /\ slot \in [Slots -> PCB]
      /\ UNCHANGED <<current, pending, cleanup>>
  <2>1. job # NoJob /\ UNCHANGED <<current, pending, cleanup>>
    BY DEF AllocArray, CopyArgument, AllocStack, ArgumentsCopied
  <2>2. job.slot \in Slots /\ p.stack = {} /\ job \in Jobs /\ slot \in [Slots -> PCB]
    BY <2>1 DEF MemInv, MemTypeOK
  <2>3. NoJob \in Jobs
    BY DEF NoJob, MemoryAssumption
  <2>. QED
    BY <2>1, <2>2, <2>3
<1>2. ASSUME NEW q \in PCB, NEW B \in SUBSET (Blocks \ used),
             Owned(q) \subseteq Owned(p) \cup B, q.state = p.state,
             slot' = [slot EXCEPT ![job.slot] = q], used' = used \cup B, job' \in Jobs,
             \/ job' # NoJob /\ job'.slot = job.slot /\ q.stack = {}
             \/ job' = NoJob /\ (q.state = "READY" => q.stack # {})
      PROVE  MemInv' /\ (current # Idle => slot'[current].stack # {})
  <2>1. /\ Owned(q) \subseteq (Owned(slot[job.slot]) \ {}) \cup B
        /\ used' = (used \ {}) \cup B /\ {} \in SUBSET Owned(slot[job.slot])
    BY <1>2
  <2>2. slot[pending].state = "TERMINATED" /\ pending = job.slot => q.state = "TERMINATED"
    BY <1>2
  <2>. QED
    BY <1>1, <1>2, <2>1, <2>2, FillingStep
<1>3. CASE AllocArray
  <2>1. PICK B \in Allocations(1) :
           used' = used \cup B /\ slot' = [slot EXCEPT ![job.slot].argv = B]
    BY <1>3 DEF AllocArray
  <2> DEFINE q == [p EXCEPT !.argv = B]
  <2>2. B \in SUBSET (Blocks \ used)
    BY AllocationIsFree
  <2>3. /\ q \in PCB /\ q.state = p.state /\ q.stack = {} /\ q.argv = B /\ q.args = p.args
    BY <1>1, <2>2 DEF PCB
  <2>4. slot' = [slot EXCEPT ![job.slot] = q]
    BY <1>1, <2>1
  <2>5. job' \in Jobs /\ job'.slot = job.slot /\ job' # NoJob
    BY <1>1, <1>3, SlotFacts DEF AllocArray, MemoryAssumption
  <2>6. Owned(q) \subseteq Owned(p) \cup B
    BY <1>1, <2>3 DEF Owned
  <2>. HIDE DEF q
  <2>. QED
    BY <1>2, <2>1, <2>2, <2>3, <2>4, <2>5, <2>6
<1>4. CASE CopyArgument
  <2> DEFINE i == job.next
             n == IF job.next = job.argc THEN job.argc ELSE 0
  <2>1. PICK B \in Allocations(1) :
           /\ used' = used \cup B
           /\ slot' = [slot EXCEPT ![job.slot] = [p EXCEPT !.args[i] = B, !.argc = n]]
    BY <1>4 DEF CopyArgument
  <2> DEFINE q == [p EXCEPT !.args[i] = B, !.argc = n]
  <2>2. B \in SUBSET (Blocks \ used)
    BY AllocationIsFree
  <2>3. i \in Indices /\ n \in 0 .. MaxArgs
    <3>1. job.argc \in 0 .. MaxArgs /\ job.next \in 1 .. job.argc /\ MaxArgs \in Nat
      BY <1>1, <1>4 DEF CopyArgument, MemoryAssumption
    <3>. QED
      BY <3>1 DEF Indices
  <2>4. /\ q \in PCB /\ q.state = p.state /\ q.stack = {} /\ q.argv = p.argv
        /\ q.args = [p.args EXCEPT ![i] = B]
    <3>. HIDE DEF n, i
    <3>. QED
      BY <1>1, <2>2, <2>3 DEF PCB
  <2>5. job' \in Jobs /\ job'.slot = job.slot /\ job' # NoJob
    <3>1. /\ job.argc \in 0 .. MaxArgs /\ job.next \in 1 .. job.argc /\ MaxArgs \in Nat
          /\ job' = [job EXCEPT !.next = job.next + 1]
      BY <1>1, <1>4 DEF CopyArgument, MemoryAssumption
    <3>2. job.next + 1 \in 0 .. MaxArgs + 1
      BY <3>1
    <3>3. job' \in Jobs /\ job'.slot = job.slot
      BY <1>1, <3>1, <3>2
    <3>. QED
      BY <1>1, <3>3, SlotFacts
  <2>6. Owned(q) \subseteq Owned(p) \cup B
    BY <1>1, <2>3, <2>4 DEF Owned, PCB
  <2>7. slot' = [slot EXCEPT ![job.slot] = q]
    BY <2>1
  <2>. HIDE DEF q
  <2>. QED
    BY <1>2, <2>1, <2>2, <2>4, <2>5, <2>6, <2>7
<1>5. CASE AllocStack
  <2>1. PICK B \in Allocations(STACK_SIZE) :
           used' = used \cup B /\ slot' = [slot EXCEPT ![job.slot].stack = B]
    BY <1>5 DEF AllocStack
  <2> DEFINE q == [p EXCEPT !.stack = B]
  <2>2. B \in SUBSET (Blocks \ used) /\ B # {}
    <3>1. B \in SUBSET (Blocks \ used) /\ Cardinality(B) = STACK_SIZE
      BY AllocationIsFree
    <3>. QED
      BY <3>1, FS_EmptySet DEF MemoryAssumption
  <2>3. /\ q \in PCB /\ q.state = p.state /\ q.stack = B /\ q.argv = p.argv /\ q.args = p.args
    BY <1>1, <2>2 DEF PCB
  <2>4. slot' = [slot EXCEPT ![job.slot] = q]
    BY <1>1, <2>1
  <2>5. job' = NoJob
    BY <1>5 DEF AllocStack
  <2>6. Owned(q) \subseteq Owned(p) \cup B
    BY <1>1, <2>3 DEF Owned
  <2>. HIDE DEF q
  <2>. QED
    BY <1>1, <1>2, <2>1, <2>2, <2>3, <2>4, <2>5, <2>6
<1>. QED
  BY <1>3, <1>4, <1>5

(* A process dies; its memory stays.                                       *)
LEMMA DeathStep ==
    ASSUME MemoryAssumption, MemInv, NEW s \in Slots, process_terminates(s)
    PROVE  MemInv' /\ (current # Idle => slot'[current].stack # {})
<1>1. /\ slot \in [Slots -> PCB] /\ slot[s] \in PCB
      /\ slot' = [slot EXCEPT ![s].state = "TERMINATED"]
      /\ pending' = IF s = current THEN s ELSE pending
      /\ UNCHANGED <<current, used, cleanup, job>>
  BY DEF MemInv, MemTypeOK, process_terminates
<1> DEFINE q == [slot[s] EXCEPT !.state = "TERMINATED"]
<1>2. q \in PCB /\ q.state = "TERMINATED" /\ q.stack = slot[s].stack /\ Owned(q) = Owned(slot[s])
  BY <1>1 DEF PCB, Owned
<1>3. slot' = [slot EXCEPT ![s] = q]
  BY <1>1
<1>. HIDE DEF q
<1>4. /\ slot' \in [Slots -> PCB] /\ slot'[s] = q
      /\ \A t \in Slots : t # s => slot'[t] = slot[t]
  BY <1>1, <1>2, <1>3
<1>5. \A t \in Slots : /\ Owned(slot'[t]) = Owned(slot[t]) /\ slot'[t].stack = slot[t].stack
                       /\ slot'[t].state = "READY" => slot[t].state = "READY"
                       /\ slot[t].state = "TERMINATED" => slot'[t].state = "TERMINATED"
  BY <1>2, <1>4
<1>6. BlocksHaveOneOwner'
  BY <1>1, <1>5 DEF MemInv, BlocksHaveOneOwner
<1>7. /\ current \in Slots \cup {Idle} /\ pending \in Slots \cup {NoSlot}
      /\ pending # NoSlot => slot[pending].state = "TERMINATED"
      /\ current # Idle => slot[current].stack # {}
  BY DEF MemInv, MemTypeOK
<1>8. MemTypeOK'
  BY <1>1, <1>4, <1>5, <1>7 DEF MemInv, MemTypeOK
<1>9. pending' # NoSlot => slot'[pending'].state = "TERMINATED"
  BY <1>1, <1>2, <1>4, <1>5, <1>7
<1>10. current # Idle => slot'[current].stack # {}
  BY <1>5, <1>7
<1>11. job' # NoJob => job'.slot \in Slots /\ slot'[job'.slot].stack = {}
  BY <1>1, <1>5 DEF MemInv
<1>. QED
  BY <1>1, <1>6, <1>8, <1>9, <1>10, <1>11 DEF MemInv

(* schedule() gives back what the dead held, and goes to a living process. *)
LEMMA ScheduleStep ==
    ASSUME MemoryAssumption, MemInv, schedule
    PROVE  MemInv' /\ (current # Idle => slot'[current].stack # {})
<1> DEFINE S == (IF CleansUp THEN Reaped ELSE {}) \cup ({pending} \ {NoSlot, current})
<1>1. /\ slot \in [Slots -> PCB] /\ current \in Slots \cup {Idle}
      /\ pending \in Slots \cup {NoSlot} /\ cleanup \in 0 .. CLEANUP_INTERVAL - 1
      /\ pending # NoSlot => slot[pending].state = "TERMINATED"
      /\ current # Idle => slot[current].stack # {}
      /\ job = NoJob /\ job' = NoJob
      /\ \A t \in Slots : slot[t].state = "READY" => slot[t].stack # {}
  BY SlotFacts DEF MemInv, MemTypeOK, schedule
<1>2. S \in SUBSET Slots /\ current \notin S /\ \A t \in S : slot[t].state = "TERMINATED"
  BY <1>1 DEF Reaped, Dead
<1>3. /\ slot' = [t \in Slots |-> IF t \in S THEN FreedPCB ELSE slot[t]]
      /\ used' = used \ ReleasedBlocks(S)
      /\ pending' = IF pending \in S THEN NoSlot ELSE pending
      /\ cleanup' = Counted
      /\ current' \in {Idle} \cup {t \in Slots : slot[t].state = "READY"}
  BY DEF schedule, release_process_resources
<1>. HIDE DEF S
<1>4. /\ slot' \in [Slots -> PCB]
      /\ \A t \in Slots : slot'[t] = IF t \in S THEN FreedPCB ELSE slot[t]
  BY <1>1, <1>3, SlotFacts
<1>5. BlocksHaveOneOwner' /\ used' \subseteq Blocks
  <2>1. \A t \in Slots : IF t \in S THEN Owned(slot'[t]) = {} ELSE slot'[t] = slot[t]
    BY <1>4, SlotFacts
  <2>. QED
    BY <1>2, <1>3, <1>4, <2>1, SlotsAreReleased DEF MemInv
<1>6. current # Idle => slot'[current].stack # {}
  BY <1>1, <1>2, <1>4
<1>7. current' # Idle => slot'[current'].stack # {}
  BY <1>1, <1>2, <1>3, <1>4
<1>8. pending' # NoSlot => slot'[pending'].state = "TERMINATED"
  BY <1>1, <1>3, <1>4
<1>9. cleanup' \in 0 .. CLEANUP_INTERVAL - 1
  BY <1>1, <1>3 DEF Counted, MemoryAssumption
<1>10. \A t \in Slots : slot'[t].state = "READY" => slot'[t].stack # {}
  BY <1>1, <1>4 DEF FreedPCB
<1>11. MemTypeOK'
  <2>1. job' \in [slot : Slots \cup {NoSlot}, argc : 0 .. MaxArgs, next : 0 .. MaxArgs + 1]
    BY <1>1 DEF MemInv, MemTypeOK
  <2>. QED
    BY <1>1, <1>3, <1>4, <1>5, <1>9, <1>10, <2>1 DEF MemTypeOK
<1>. QED
  BY <1>1, <1>5, <1>6, <1>7, <1>8, <1>11 DEF MemInv

\* The kernel starts with every slot free.
LEMMA MemInvInit ==
    ASSUME MemoryAssumption, MemInit
    PROVE  MemInv
<1>1. \A s \in Slots : slot[s] = FreedPCB
  BY DEF MemInit
<1>2. slot \in [Slots -> PCB] /\ \A s \in Slots : Owned(slot[s]) = {}
  BY <1>1, SlotFacts DEF MemInit
<1>3. \A s \in Slots : slot[s].state = "TERMINATED"
  BY <1>1 DEF FreedPCB
<1>4. NoJob \in [slot : Slots \cup {NoSlot}, argc : 0 .. MaxArgs, next : 0 .. MaxArgs + 1]
  BY DEF NoJob, MemoryAssumption
<1>5. MemTypeOK
  BY <1>2, <1>3, <1>4 DEF MemTypeOK, MemInit, MemoryAssumption
<1>6. BlocksHaveOneOwner
  BY <1>2 DEF BlocksHaveOneOwner
<1>. QED
  BY <1>5, <1>6 DEF MemInv, MemInit

(* MemInv is inductive, and no step takes the stack of the current process. *)
LEMMA MemInvStep ==
    ASSUME MemoryAssumption, MemInv, MemNext
    PROVE  MemInv' /\ (current # Idle => slot'[current].stack # {})
<1>1. CASE ArgumentsRefused \/ StackRefused
  <2>1. job # NoJob /\ CreationFails(slot[job.slot])
    BY <1>1 DEF ArgumentsRefused, StackRefused, ArgumentsCopied
  <2>. QED
    BY <2>1, FailureStep
<1>. QED
  BY <1>1, BeginStep, AllocationStep, DeathStep, ScheduleStep DEF MemNext, Terminate

(* No block belongs to two processes or is free while a process holds it,  *)
(* whichever allocation of a creation is refused.                          *)
THEOREM BlocksKeepTheirOwner ==
    ASSUME MemoryAssumption
    PROVE  MemSpec => []BlocksHaveOneOwner
<1>1. MemInit => MemInv
  BY MemInvInit
<1>2. MemInv /\ [MemNext]_memVars => MemInv'
  <2>1. MemInv /\ UNCHANGED memVars => MemInv'
    BY DEF memVars, MemInv, MemTypeOK, BlocksHaveOneOwner
  <2>. QED
    BY <2>1, MemInvStep
<1>3. MemInv => BlocksHaveOneOwner
  BY DEF MemInv
<1>. QED
  BY <1>1, <1>2, <1>3, PTL DEF MemSpec

(* The stack the CPU is on is not given back, nor in the call that leaves  *)
(* it.                                                                     *)
THEOREM StackStaysUnderTheCpu ==
    ASSUME MemoryAssumption
    PROVE  MemSpec => CurrentStackIsKept
<1>1. MemInit => MemInv
  BY MemInvInit
<1>2. MemInv /\ [MemNext]_memVars =>
         MemInv' /\ [current # Idle => slot'[current].stack # {}]_memVars
  <2>1. MemInv /\ UNCHANGED memVars => MemInv'
    BY DEF memVars, MemInv, MemTypeOK, BlocksHaveOneOwner
  <2>. QED
    BY <2>1, MemInvStep
<1>. QED
  BY <1>1, <1>2, PTL DEF MemSpec, CurrentStackIsKept

-----------------------------------------------------------------------------
\* Where the shell can be.
Stages == {"prompt", "typing", "writer", "reader", "wait_writer", "wait_reader", "restore"}

Awaiting == {"wait_writer", "wait_reader", "restore"}

ShellRecord ==
    [pc: Stages, command: Commands \union {<<>>}, pipe: PipeIds \union {Nobody},
     writer: Procs \union {Nobody}, reader: Procs \union {Nobody}]

\* At each stage of the shell, who may live.
Crew ==
    CASE shell.pc = "reader"      -> {Shell, shell.writer}
      [] shell.pc = "wait_writer" -> {Shell, shell.writer, shell.reader}
      [] shell.pc = "wait_reader" -> {Shell, shell.reader}
      [] OTHER                    -> {Shell}

\* Numbers are given out in turn, and there are enough for the pipeline begun.
CrewInv ==
    /\ shell \in ShellRecord
    /\ created \in 0 .. 2 * MaxPipelines
    /\ Shell \in alive /\ alive \subseteq Crew /\ \A q \in alive : q <= created
    /\ shell.pc = "writer" => created + 2 <= 2 * MaxPipelines
    /\ shell.pc = "reader" => created + 1 <= 2 * MaxPipelines /\ shell.writer = created
                              /\ created > 0
    /\ shell.pc \in Awaiting => shell.reader = created /\ shell.writer = created - 1
                                /\ created > 1

(* What a creation, refused or not, does to the living.                    *)
LEMMA ChildIsBorn ==
    ASSUME NEW config, NEW program, Create(config, program)
    PROVE  /\ alive' = alive \/ alive' = alive \union {Child}
           /\ created' = Child /\ Child \notin alive
  BY DEF Create, create_process_internal

(* A program's step ends nobody, or itself.                                *)
LEMMA ProgramKeepsCrew ==
    ASSUME NEW p \in Users, Program(p)
    PROVE  /\ shell' = shell /\ created' = created
           /\ alive' = alive \/ alive' = alive \ {p}
<1>1. ASSUME WriteByte(p)
      PROVE  alive' = alive
  BY <1>1 DEF WriteByte, process_write, ioVars
<1>2. CASE Exit(p)
  BY <1>2 DEF Exit, terminate_program, terminate_process
<1>3. CASE ReadByte(p)
  BY <1>3 DEF ReadByte, process_read
<1>4. CASE Echo(p) \/ PrintByte(p)
  BY <1>1, <1>4 DEF Echo, PrintByte
<1>5. CASE ReadKey(p) \/ EndOfKeys(p) \/ EndOfPipe(p) \/ TakePrintSem(p) \/ PostPrintSem(p)
  BY <1>5 DEF ReadKey, EndOfKeys, EndOfPipe, TakePrintSem, PostPrintSem, ioVars
<1>. QED
  BY <1>2, <1>3, <1>4, <1>5 DEF Program

\* Fewer of a crew are still of it.
LEMMA CrewShrinks ==
    ASSUME CrewInv, NEW p \in Users, shell' = shell, created' = created,
           alive' = alive \/ alive' = alive \ {p}, Init0 = 0, Procs = 0 .. 2 * MaxPipelines
    PROVE  CrewInv'
<1>1. Shell \in alive' /\ alive' \subseteq alive
  BY DEF CrewInv, Users
<1>2. Crew' = Crew
  BY DEF Crew
<1>. QED
  BY <1>1, <1>2 DEF CrewInv

(* CrewInv is inductive.                                                   *)
LEMMA CrewStep ==
    ASSUME PipelineAssumption, CrewInv, [Next]_pipelineVars
    PROVE  CrewInv'
<1>0. Shell = 0 /\ Procs = 0 .. 2 * MaxPipelines /\ MaxPipelines \in Nat /\ Nobody = -1
  BY PipelineAssumption DEF PipelineAssumption, Shell, Nobody
<1>1. CASE Prompt
  BY <1>1 DEF Prompt, CrewInv, Crew, ShellRecord, Stages, Awaiting, ioVars
<1>2. CASE OpenPipe
  <2>1. /\ alive' = alive /\ created' = created /\ shell.pc = "typing"
        /\ created + 2 <= 2 * MaxPipelines
        /\ \/ shell' = [shell EXCEPT !.pc = "prompt"]
           \/ \E c \in Commands : \E i \in OpenAt(pipes, c[1]) :
                 shell' = [pc |-> "writer", command |-> c, pipe |-> i,
                           writer |-> Nobody, reader |-> Nobody]
    BY <1>2 DEF OpenPipe, sys_pipe_open, ioVars
  <2>2. \A c : OpenAt(pipes, c) \subseteq PipeIds
    BY DEF OpenAt, find_pipe, FreePipes
  <2>3. shell' \in ShellRecord /\ shell'.pc \in {"prompt", "writer"}
    BY <2>1, <2>2 DEF CrewInv, ShellRecord, Stages
  <2>4. alive' = {Shell} /\ Crew' = {Shell}
    BY <2>1, <2>3 DEF CrewInv, Crew
  <2>. QED
    BY <2>1, <2>3, <2>4 DEF CrewInv, Awaiting
<1>3. CASE CreateWriter
  <2>1. /\ shell.pc = "writer" /\ shell' = [shell EXCEPT !.pc = "reader", !.writer = Child]
        /\ created' = Child
        /\ alive' \subseteq alive \union {Child} /\ alive \subseteq alive'
    BY <1>3, ChildIsBorn DEF CreateWriter
  <2>2. Child \in Procs /\ Child = created + 1 /\ created + 2 <= 2 * MaxPipelines
    BY <1>0, <2>1 DEF CrewInv, Child
  <2>3. /\ shell' \in ShellRecord /\ shell'.pc = "reader" /\ shell'.writer = Child
    BY <2>1, <2>2 DEF CrewInv, ShellRecord, Stages
  <2>4. alive = {Shell} /\ Crew' = {Shell, Child}
    BY <2>1, <2>3 DEF CrewInv, Crew
  <2>. QED
    BY <1>0, <2>1, <2>2, <2>3, <2>4 DEF CrewInv, Awaiting
<1>4. CASE CreateReader
  <2>1. /\ shell.pc = "reader"
        /\ shell' = [shell EXCEPT !.pc = "wait_writer", !.reader = Child]
        /\ created' = Child
        /\ alive' \subseteq alive \union {Child} /\ alive \subseteq alive'
    BY <1>4, ChildIsBorn DEF CreateReader
  <2>2. /\ Child \in Procs /\ Child = created + 1 /\ created \in Nat
        /\ created + 1 <= 2 * MaxPipelines /\ created > 0 /\ shell.writer = created
    BY <1>0, <2>1 DEF CrewInv, Child
  <2>3. /\ shell' \in ShellRecord /\ shell'.pc = "wait_writer" /\ shell'.reader = Child
        /\ shell'.writer = shell.writer
    BY <2>1, <2>2 DEF CrewInv, ShellRecord, Stages
  <2>4. alive \subseteq {Shell, shell.writer} /\ Crew' = {Shell, shell.writer, Child}
    BY <2>1, <2>3 DEF CrewInv, Crew
  <2>. QED
    BY <1>0, <2>1, <2>2, <2>3, <2>4 DEF CrewInv, Awaiting
<1>5. CASE NoWriter
  <2>1. /\ shell.pc = "writer" /\ shell' = [shell EXCEPT !.pc = "prompt"]
        /\ created' = created + 2 /\ alive' = alive
    BY <1>5 DEF NoWriter, sys_pipe_close
  <2>2. created' \in 0 .. 2 * MaxPipelines /\ created <= created'
    BY <1>0, <2>1 DEF CrewInv
  <2>3. shell' \in ShellRecord /\ shell'.pc = "prompt"
    BY <2>1 DEF CrewInv, ShellRecord, Stages
  <2>4. alive' = {Shell} /\ Crew' = {Shell}
    BY <2>1, <2>3 DEF CrewInv, Crew
  <2>. QED
    BY <1>0, <2>2, <2>3, <2>4 DEF CrewInv, Awaiting
<1>6. CASE NoReader
  <2>1. /\ shell.pc = "reader" /\ shell' = [shell EXCEPT !.pc = "prompt"]
        /\ created' = created + 1 /\ alive' = alive \ {shell.writer}
    BY <1>6 DEF NoReader, terminate_process, ioVars
  <2>2. /\ created' \in 0 .. 2 * MaxPipelines /\ created <= created'
        /\ shell.writer # Shell
    BY <1>0, <2>1 DEF CrewInv
  <2>3. shell' \in ShellRecord /\ shell'.pc = "prompt"
    BY <2>1 DEF CrewInv, ShellRecord, Stages
  <2>4. alive' = {Shell} /\ Crew' = {Shell}
    BY <2>1, <2>2, <2>3 DEF CrewInv, Crew
  <2>. QED
    BY <1>0, <2>2, <2>3, <2>4 DEF CrewInv, Awaiting
<1>7. CASE WaitForWriter \/ WaitForReader
  <2>1. /\ alive' = alive /\ created' = created
        /\ \/ /\ shell.pc = "wait_writer" /\ shell.writer \notin alive
              /\ shell' = [shell EXCEPT !.pc = "wait_reader"]
           \/ /\ shell.pc = "wait_reader" /\ shell.reader \notin alive
              /\ shell' = [shell EXCEPT !.pc = "restore"]
    BY <1>7 DEF WaitForWriter, WaitForReader, Waited, ioVars
  <2>2. /\ shell' \in ShellRecord /\ shell'.pc \in {"wait_reader", "restore"}
        /\ shell'.writer = shell.writer /\ shell'.reader = shell.reader
        /\ shell.pc \in Awaiting /\ shell'.pc \in Awaiting
    BY <2>1 DEF CrewInv, ShellRecord, Stages, Awaiting
  <2>3. alive' \subseteq Crew'
    BY <2>1, <2>2 DEF CrewInv, Crew, ShellRecord
  <2>. QED
    BY <2>1, <2>2, <2>3 DEF CrewInv
<1>8. CASE RestoreForeground
  BY <1>8 DEF RestoreForeground, CrewInv, Crew, ShellRecord, Stages, Awaiting, ioVars
<1>9. CASE handle_ctrl_c
  <2>1. /\ foreground \in Users /\ shell' = shell /\ created' = created
        /\ alive' = alive \ {foreground}
    BY <1>9 DEF handle_ctrl_c, terminate_program, terminate_process
  <2>. QED
    BY <1>0, <2>1, CrewShrinks DEF Shell
<1>10. ASSUME NEW p \in Users, Program(p)
       PROVE  CrewInv'
  BY <1>0, <1>10, ProgramKeepsCrew, CrewShrinks DEF Shell
<1>11. CASE UNCHANGED pipelineVars
  BY <1>11 DEF pipelineVars, ioVars, CrewInv, Crew
<1>. QED
  BY <1>1, <1>2, <1>3, <1>4, <1>5, <1>6, <1>7, <1>8, <1>9, <1>10, <1>11
     DEF Next, pipes_cmd

(* The shell is alone at its first prompt.                                 *)
LEMMA CrewBegins == ASSUME PipelineAssumption, Init PROVE CrewInv
<1>1. Shell = 0 /\ Procs = 0 .. 2 * MaxPipelines /\ MaxPipelines \in Nat /\ Nobody = -1
  BY PipelineAssumption DEF PipelineAssumption, Shell, Nobody
<1>2. /\ shell \in ShellRecord /\ shell.pc = "prompt" /\ created = 0 /\ alive = {Shell}
  BY DEF Init, IoInit, ShellRecord, Stages, Shell
<1>. QED
  BY <1>1, <1>2 DEF CrewInv, Crew, Awaiting

(* When the user types the next command, both processes of the last are gone, *)
(* whatever was refused and whoever was killed.                              *)
THEOREM NobodyStays == Spec => []NobodyIsLeft
<1>1. Init => CrewInv
  BY PipelineAssumption, CrewBegins
<1>2. CrewInv /\ [Next]_pipelineVars => CrewInv'
  BY PipelineAssumption, CrewStep
<1>3. CrewInv => NobodyIsLeft
  BY DEF CrewInv, Crew, NobodyIsLeft
<1>. QED
  BY <1>1, <1>2, <1>3, PTL DEF Spec

-----------------------------------------------------------------------------
(* The bytes *)

WritesTo(p, i) ==
    io[p]["stdin"] = Console /\ io[p]["stdout"] = i /\ io[p]["stderr"] = Console

ReadsFrom(p, i) ==
    io[p]["stdin"] = i /\ io[p]["stdout"] = Console /\ io[p]["stderr"] = Console

NoDescriptor(p) == \A fd \in Fds : io[p][fd] = Console

\* A reader that is here has read all there was.
Late == {"print", "printing", "exit"}

NoPipeBut(i) == \A j \in PipeIds \ {i} : ~ pipes[j].active

\* Too few numbers are left for another pipeline.
Stopped == created + 2 > 2 * MaxPipelines

\* The pipe i is that of the writer alone.
OfTheWriter(i, w) ==
    /\ NoPipeBut(i)
    /\ w \in alive => pipes[i].active /\ WritesTo(w, i)
    /\ pipes[i].active =>
          /\ pipes[i].bytes \in Seq({w})
          /\ pipes[i].writers = IF w \in alive THEN 1 ELSE 0
          /\ pipes[i].eof => w \notin alive

\* Its reader stays until it has read all, and takes the pipe with it.
OfTheReader(i, w, r) ==
    /\ got[r] \subseteq {w}
    /\ r \in alive =>
          /\ pipes[i].active /\ ReadsFrom(r, i)
          /\ task[r].phase \in Late => pipes[i].eof /\ pipes[i].bytes = <<>>
    /\ pipes[i].active => r \in alive /\ pipes[i].readers = 1

TaskShape ==
    /\ DOMAIN task = Users
    /\ \A p \in Users : DOMAIN task[p] = {"program", "pieces", "left", "keys", "phase"}

FlowTypes ==
    /\ pipes \in [PipeIds -> PipeSlot]
    /\ io \in [Procs -> Descs]
    /\ TaskShape
    /\ got \in [Users -> SUBSET Users]
    /\ foreground \in Int /\ foreground <= created

AtHome ==
    shell.pc \in {"prompt", "typing"} => Stopped \/ \A i \in PipeIds : ~ pipes[i].active

JustOpened ==
    shell.pc = "writer" =>
        /\ shell.pipe \in PipeIds /\ shell.command \in Commands
        /\ NoPipeBut(shell.pipe)
        /\ pipes[shell.pipe] =
              [FreeSlot EXCEPT !.name = shell.command[1], !.active = TRUE]

HalfOpen ==
    shell.pc = "reader" =>
        /\ shell.pipe \in PipeIds /\ shell.command \in Commands
        /\ OfTheWriter(shell.pipe, shell.writer)
        /\ pipes[shell.pipe].active => pipes[shell.pipe].readers = 0

Flowing ==
    shell.pc \in Awaiting =>
        /\ shell.pipe \in PipeIds
        /\ OfTheWriter(shell.pipe, shell.writer)
        /\ OfTheReader(shell.pipe, shell.writer, shell.reader)

FlowInv ==
    /\ CrewInv /\ FlowTypes
    /\ NoDescriptor(Shell)
    /\ \A q \in Users : q > created => got[q] = {}
    /\ foreground \in alive \ {Shell} => foreground = shell.writer
    /\ AtHome /\ JustOpened /\ HalfOpen /\ Flowing

\* The numbers of the processes and of the pipes.
LEMMA PipelineFacts ==
           /\ Shell = 0 /\ Nobody = -1 /\ MaxPipelines \in Nat
           /\ Procs = 0 .. 2 * MaxPipelines /\ Users = 1 .. 2 * MaxPipelines
           /\ Console = -1 /\ Inherit = -2 /\ Fds = {"stdin", "stdout", "stderr"}
           /\ MAX_PIPES \in Nat \ {0} /\ PipeIds = 0 .. MAX_PIPES - 1
           /\ Console \notin PipeIds /\ Inherit \notin PipeIds
<1>1. Shell = 0 /\ Nobody = -1 /\ MaxPipelines \in Nat /\ Procs = 0 .. 2 * MaxPipelines
  BY PipelineAssumption DEF PipelineAssumption, Shell, Nobody
<1>2. Users = 1 .. 2 * MaxPipelines
  BY <1>1 DEF Users
<1>3. MAX_PIPES \in Nat \ {0}
  BY PipelineAssumption DEF PipelineAssumption, DescriptorsAssumption
<1>. QED
  BY <1>1, <1>2, <1>3 DEF Console, Inherit, Fds, PipeIds

(* Nothing is released where there is no pipe.                             *)
LEMMA NothingToRelease ==
    ASSUME NEW s, NEW fd, s.desc[fd] = Console
    PROVE  Release(s, fd) = s /\ Retain(s, fd) = s
  BY PipelineFacts DEF Release, Retain, IsPipe

(* A child of the shell inherits nothing; it gets the one end it is created *)
(* for, if the pipe is open.                                               *)
LEMMA OneEndIsOpened ==
    ASSUME FlowTypes, NoDescriptor(Shell), NEW i \in PipeIds,
           NEW fd \in {"stdin", "stdout"}, NEW config,
           config = [stdin |-> IF fd = "stdin" THEN i ELSE Console,
                     stdout |-> IF fd = "stdout" THEN i ELSE Console, stderr |-> Console]
    PROVE  LET opened == Opened(Shell, config)
           IN  /\ opened.ok <=> pipes[i].active
               /\ pipes[i].active => /\ opened.table = Registered(pipes, fd, i)
                                     /\ opened.desc = [io[Shell] EXCEPT ![fd] = i]
<1> DEFINE s == [table |-> pipes, desc |-> io[Shell], ok |-> TRUE, posted |-> FALSE]
           good == [table |-> Registered(pipes, fd, i),
                    desc |-> [io[Shell] EXCEPT ![fd] = i],
                    ok |-> TRUE, posted |-> FALSE]
           bad == [table |-> pipes, desc |-> io[Shell], ok |-> FALSE, posted |-> FALSE]
           r == IF pipes[i].active THEN good ELSE bad
<1>1. Shell \in Procs /\ io[Shell] \in Descs
  BY PipelineFacts DEF FlowTypes
<1>2. \A f \in Fds : s.desc[f] = Console
  BY DEF NoDescriptor
<1>3. /\ retain_process_io_resources(s) = s
      /\ \A f \in Fds : Release(s, f) = s /\ Retain(s, f) = s
  BY <1>2, NothingToRelease, PipelineFacts DEF retain_process_io_resources
<1>4. \A f \in Fds : SetDescriptor(s, f, Console) = s
  BY <1>2 DEF SetDescriptor
<1>5. SetDescriptor(s, fd, i) = r
  <2>1. s.desc[fd] = Console /\ i \notin {Inherit, Console} /\ s.ok /\ s.table = pipes
    BY <1>2, PipelineFacts
  <2>2. Release(s, fd) = s /\ Retain(s, fd) = s
    BY <1>3, PipelineFacts
  <2>3. CASE pipes[i].active
    <3>1. SetDescriptor(s, fd, i) =
            [s EXCEPT !.table = Registered(@, fd, i), !.desc[fd] = i]
      BY <2>1, <2>2, <2>3 DEF SetDescriptor, IsPipe
    <3>. QED
      BY <2>3, <3>1
  <2>4. CASE ~ pipes[i].active
    <3>1. SetDescriptor(s, fd, i) = [s EXCEPT !.ok = FALSE]
      BY <2>1, <2>2, <2>4 DEF SetDescriptor, IsPipe
    <3>. QED
      BY <2>4, <3>1
  <2>. QED
    BY <2>3, <2>4
<1>6. \A f \in Fds \ {fd} : r.desc[f] = Console
  BY <1>1, <1>2 DEF Descs
<1>7. \A f \in Fds \ {fd} : SetDescriptor(r, f, Console) = r
  BY <1>6 DEF SetDescriptor
<1>8. Opened(Shell, config) = override_process_io(s, config)
  BY <1>3 DEF Opened
<1>9. /\ config.stderr = Console
      /\ config.stdin = IF fd = "stdin" THEN i ELSE Console
      /\ config.stdout = IF fd = "stdout" THEN i ELSE Console
  OBVIOUS
<1>. HIDE DEF s, r
<1>10. override_process_io(s, config) = r
  <2>1. CASE fd = "stdin"
    BY <1>5, <1>7, <1>9, <2>1, PipelineFacts DEF override_process_io
  <2>2. CASE fd = "stdout"
    BY <1>4, <1>5, <1>7, <1>9, <2>2, PipelineFacts DEF override_process_io
  <2>. QED
    BY <2>1, <2>2
<1>. QED
  BY <1>8, <1>10 DEF r

\* create_process_internal, for a pipe that is open; it fails for one that is not.
LEMMA OneEndIsCreated ==
    ASSUME FlowTypes, NoDescriptor(Shell), NEW i \in PipeIds, Child \in Procs,
           NEW fd \in {"stdin", "stdout"}, NEW config, NEW program, Create(config, program),
           config = [stdin |-> IF fd = "stdin" THEN i ELSE Console,
                     stdout |-> IF fd = "stdout" THEN i ELSE Console, stderr |-> Console]
    PROVE  /\ Child \in alive' => pipes[i].active
           /\ pipes[i].active =>
                 /\ alive' = alive \union {Child} /\ Child \notin alive
                 /\ pipes' = Registered(pipes, fd, i)
                 /\ io'[Child][fd] = i
                 /\ \A f \in Fds \ {fd} : io'[Child][f] = Console
                 /\ \A q \in Procs \ {Child} : io'[q] = io[q]
                 /\ io' \in [Procs -> Descs]
<1> DEFINE opened == Opened(Shell, config)
<1>1. /\ opened.ok <=> pipes[i].active
      /\ pipes[i].active => /\ opened.table = Registered(pipes, fd, i)
                            /\ opened.desc = [io[Shell] EXCEPT ![fd] = i]
  BY OneEndIsOpened
<1>. HIDE DEF opened
<1>2. create_process_internal(Child, Shell, config, FALSE)
  BY DEF Create
<1>3. /\ Child \notin alive
      /\ alive' = IF ~ opened.ok THEN alive ELSE alive \union {Child}
      /\ opened.ok => pipes' = opened.table /\ io' = [io EXCEPT ![Child] = opened.desc]
  BY <1>2 DEF create_process_internal, opened
<1>4. Shell \in Procs /\ io[Shell] \in Descs /\ \A f \in Fds : io[Shell][f] = Console
  BY PipelineFacts DEF FlowTypes, NoDescriptor
<1>5. ASSUME pipes[i].active
      PROVE  /\ io'[Child][fd] = i
             /\ \A f \in Fds \ {fd} : io'[Child][f] = Console
             /\ \A q \in Procs \ {Child} : io'[q] = io[q]
             /\ io' \in [Procs -> Descs]
  <2> DEFINE d == [io[Shell] EXCEPT ![fd] = i]
  <2>1. d \in Descs /\ d[fd] = i /\ \A f \in Fds \ {fd} : d[f] = Console
    BY <1>4, PipelineFacts DEF Descs
  <2>2. io' = [io EXCEPT ![Child] = d] /\ io \in [Procs -> Descs]
    BY <1>1, <1>3, <1>5 DEF FlowTypes
  <2>. HIDE DEF d
  <2>. QED
    BY <2>1, <2>2
<1>. QED
  BY <1>1, <1>3, <1>5

\* A registration counts one more.
LEMMA RegisteredCounts ==
    ASSUME NEW t \in [PipeIds -> PipeSlot], NEW i \in PipeIds,
           NEW fd \in {"stdin", "stdout"},
           NEW u, u = Registered(t, fd, i)
    PROVE  /\ u \in [PipeIds -> PipeSlot]
           /\ \A j \in PipeIds \ {i} : u[j] = t[j]
           /\ u[i].active = t[i].active /\ u[i].bytes = t[i].bytes /\ u[i].eof = t[i].eof
           /\ u[i].readers = IF fd = "stdin" THEN t[i].readers + 1 ELSE t[i].readers
           /\ u[i].writers = IF fd = "stdin" THEN t[i].writers ELSE t[i].writers + 1
<1> DEFINE m == t[i].writers + 1
           n == t[i].readers + 1
           v == IF fd = "stdin" THEN [t[i] EXCEPT !.readers = n]
                ELSE [t[i] EXCEPT !.writers = m]
<1>1. t[i] \in PipeSlot /\ m \in Nat /\ n \in Nat
  BY DEF PipeSlot
<1>2. u = [t EXCEPT ![i] = v]
  BY DEF Registered
<1>. HIDE DEF m, n
<1>3. /\ v \in PipeSlot
      /\ v.active = t[i].active /\ v.bytes = t[i].bytes /\ v.eof = t[i].eof
      /\ v.readers = IF fd = "stdin" THEN n ELSE t[i].readers
      /\ v.writers = IF fd = "stdin" THEN t[i].writers ELSE m
  BY <1>1 DEF PipeSlot
<1>. HIDE DEF v
<1>. QED
  BY <1>1, <1>2, <1>3 DEF m, n

\* The record a pipe becomes when one end is given back.
EndGiven(v, fd) ==
    LET w == IF fd = "stdin" THEN [v EXCEPT !.readers = Minus1(@)]
             ELSE [v EXCEPT !.writers = Minus1(@), !.eof = @ \/ v.writers <= 1]
    IN  IF w.active /\ w.readers = 0 /\ w.writers = 0 /\ w.bytes = <<>> THEN FreeSlot ELSE w

\* An unregistration counts one less, and frees a pipe without ends and bytes.
LEMMA UnregisteredIs ==
    ASSUME NEW t \in [PipeIds -> PipeSlot], NEW i \in PipeIds,
           NEW fd \in {"stdin", "stdout"}
    PROVE  Unregistered(t, fd, i) = [t EXCEPT ![i] = EndGiven(t[i], fd)]
<1>. DEFINE v == IF fd = "stdin" THEN [t[i] EXCEPT !.readers = Minus1(@)]
                 ELSE [t[i] EXCEPT !.writers = Minus1(@), !.eof = @ \/ t[i].writers <= 1]
            u == [t EXCEPT ![i] = v]
<1>1. IF fd = "stdin" THEN [t EXCEPT ![i].readers = Minus1(@)] = u
      ELSE [t EXCEPT ![i].writers = Minus1(@),
                     ![i].eof = @ \/ LastWriter(t, fd, i)] = u
  BY DEF LastWriter, PipeSlot
<1>2. Unregistered(t, fd, i) = pipe_destroy_if_unused(u, i)
  BY <1>1 DEF Unregistered
<1>3. u[i] = v /\ [u EXCEPT ![i] = FreeSlot] = [t EXCEPT ![i] = FreeSlot]
  OBVIOUS
<1>4. EndGiven(t[i], fd) =
        IF v.active /\ v.readers = 0 /\ v.writers = 0 /\ v.bytes = <<>> THEN FreeSlot ELSE v
  BY DEF EndGiven
<1>. HIDE DEF v
<1>. QED
  BY <1>2, <1>3, <1>4 DEF pipe_destroy_if_unused

(* Who has one end of an open pipe gives that back when it ends.           *)
LEMMA OneEndIsGiven ==
    ASSUME FlowTypes, NEW p \in Procs, terminate_process(p), NEW fd \in {"stdin", "stdout"},
           NEW i \in PipeIds, pipes[i].active, io[p][fd] = i,
           \A f \in Fds \ {fd} : io[p][f] = Console
    PROVE  /\ pipes' = [pipes EXCEPT ![i] = EndGiven(pipes[i], fd)]
           /\ \A q \in Procs \ {p} : io'[q] = io[q]
           /\ io' \in [Procs -> Descs] /\ alive' = alive \ {p}
<1> DEFINE s == [table |-> pipes, desc |-> io[p], ok |-> TRUE, posted |-> FALSE]
           r == Release(s, fd)
<1>1. /\ s.desc[fd] = i /\ s.table = pipes
      /\ \A f \in Fds \ {fd} : s.desc[f] = Console
  OBVIOUS
<1>2. r.table = Unregistered(pipes, fd, i) /\ r.desc = s.desc
  BY <1>1 DEF Release, IsPipe
<1>3. \A f \in Fds \ {fd} : Release(s, f) = s /\ Release(r, f) = r
  BY <1>1, <1>2, NothingToRelease
<1>4. release_process_io_resources(s) = [r EXCEPT !.desc = init_process_io_defaults]
  <2>. HIDE DEF s, r
  <2>1. Release(Release(Release(s, "stdin"), "stdout"), "stderr") = r
    <3>1. CASE fd = "stdin"
      BY <1>3, <3>1, PipelineFacts DEF r
    <3>2. CASE fd = "stdout"
      BY <1>3, <3>2, PipelineFacts DEF r
    <3>. QED
      BY <3>1, <3>2
  <2>. QED
    BY <2>1 DEF release_process_io_resources
<1>5. /\ pipes' = r.table /\ io' = [io EXCEPT ![p] = init_process_io_defaults]
      /\ alive' = alive \ {p}
  <2>1. r = [table |-> r.table, desc |-> r.desc, ok |-> r.ok, posted |-> r.posted]
    BY <1>1 DEF Release, IsPipe
  <2>. HIDE DEF r
  <2>. QED
    BY <1>4, <2>1 DEF terminate_process
<1>6. init_process_io_defaults \in Descs
  BY DEF init_process_io_defaults, Descs
<1>. HIDE DEF s, r
<1>. QED
  BY <1>2, <1>5, <1>6, UnregisteredIs DEF FlowTypes

\* The input of p is at its end.
AtEnd(p) ==
    LET i == io[p]["stdin"]
    IN  i = Console \/ ~ pipes[i].active \/ (pipes[i].bytes = <<>> /\ pipes[i].eof)

\* A process goes on to a phase; what else of its record changes is of no account.
LEMMA PhaseOf ==
    ASSUME TaskShape, NEW p \in Users, NEW x, NEW y,
           \/ task' = [task EXCEPT ![p].phase = x]
           \/ task' = [task EXCEPT ![p].phase = x, ![p].keys = y]
           \/ task' = [task EXCEPT ![p].phase = x, ![p].left = y]
           \/ task' = [task EXCEPT ![p].pieces = y, ![p].phase = x]
           \/ task' = [task EXCEPT ![p].left = y] /\ x = task[p].phase
    PROVE  /\ TaskShape' /\ \A q \in Users \ {p} : task'[q] = task[q]
           /\ task'[p].phase = x
<1> DEFINE r == task[p]
<1>1. DOMAIN task = Users /\ DOMAIN r = {"program", "pieces", "left", "keys", "phase"}
  BY DEF TaskShape
<1>2. \E v : /\ task' = [task EXCEPT ![p] = v] /\ v.phase = x
             /\ DOMAIN v = {"program", "pieces", "left", "keys", "phase"}
  <2>1. CASE task' = [task EXCEPT ![p].phase = x]
    <3> DEFINE v == [r EXCEPT !.phase = x]
    <3>1. task' = [task EXCEPT ![p] = v]
      BY <2>1
    <3>2. v.phase = x /\ DOMAIN v = DOMAIN r
      BY <1>1
    <3>. QED
      BY <1>1, <3>1, <3>2
  <2>2. CASE task' = [task EXCEPT ![p].phase = x, ![p].keys = y]
    <3> DEFINE v == [r EXCEPT !.phase = x, !.keys = y]
    <3>1. task' = [task EXCEPT ![p] = v]
      BY <2>2
    <3>2. v.phase = x /\ DOMAIN v = DOMAIN r
      BY <1>1
    <3>. QED
      BY <1>1, <3>1, <3>2
  <2>3. CASE task' = [task EXCEPT ![p].phase = x, ![p].left = y]
    <3> DEFINE v == [r EXCEPT !.phase = x, !.left = y]
    <3>1. task' = [task EXCEPT ![p] = v]
      BY <2>3
    <3>2. v.phase = x /\ DOMAIN v = DOMAIN r
      BY <1>1
    <3>. QED
      BY <1>1, <3>1, <3>2
  <2>4. CASE task' = [task EXCEPT ![p].pieces = y, ![p].phase = x]
    <3> DEFINE v == [r EXCEPT !.pieces = y, !.phase = x]
    <3>1. task' = [task EXCEPT ![p] = v]
      BY <2>4
    <3>2. v.phase = x /\ DOMAIN v = DOMAIN r
      BY <1>1
    <3>. QED
      BY <1>1, <3>1, <3>2
  <2>5. CASE task' = [task EXCEPT ![p].left = y] /\ x = r.phase
    <3> DEFINE v == [r EXCEPT !.left = y]
    <3>1. task' = [task EXCEPT ![p] = v]
      BY <2>5
    <3>2. v.phase = x /\ DOMAIN v = DOMAIN r
      BY <1>1, <2>5
    <3>. QED
      BY <1>1, <3>1, <3>2
  <2>. QED
    BY <2>1, <2>2, <2>3, <2>4, <2>5
<1>3. PICK v : /\ task' = [task EXCEPT ![p] = v] /\ v.phase = x
               /\ DOMAIN v = {"program", "pieces", "left", "keys", "phase"}
  BY <1>2
<1>4. DOMAIN task' = Users /\ \A q \in Users : task'[q] = IF q = p THEN v ELSE task[q]
  BY <1>1, <1>3
<1>. QED
  BY <1>3, <1>4 DEF TaskShape

(* What one step of a program does.                                        *)
LEMMA ProgramDoes ==
    ASSUME FlowTypes, NEW p \in Users, Program(p)
    PROVE  /\ p \in alive /\ shell' = shell /\ created' = created
           /\ TaskShape' /\ \A q \in Users \ {p} : task'[q] = task[q]
           /\ \/ Exit(p) /\ UNCHANGED <<task, got>>
              \/ /\ UNCHANGED <<ioVars, got, foreground>>
                 /\ task'[p].phase \in Late => task[p].phase \in Late \/ AtEnd(p)
              \/ /\ WriteByte(p) /\ UNCHANGED <<got, foreground>>
                 /\ task'[p].phase \in Late => task[p].phase \in Late
              \/ ReadByte(p) /\ task'[p].phase \notin Late
<1>1. CASE Exit(p)
  BY <1>1 DEF Exit, terminate_program, terminate_process, FlowTypes, TaskShape
<1>2. CASE ReadKey(p)
  <2>1. /\ task' = [task EXCEPT ![p].phase = AfterByte(p), ![p].keys = task[p].keys - 1]
        /\ p \in alive /\ AtEnd(p) /\ UNCHANGED <<ioVars, got, foreground, shell, created>>
    BY <1>2 DEF ReadKey, Running, AtEnd
  <2>. QED
    BY <2>1, PhaseOf DEF FlowTypes
<1>3. CASE EndOfKeys(p) \/ EndOfPipe(p)
  <2>1. /\ task' = [task EXCEPT ![p].phase = AfterReading(task[p].pieces)]
        /\ p \in alive /\ AtEnd(p) /\ UNCHANGED <<ioVars, got, foreground, shell, created>>
    BY <1>3 DEF EndOfKeys, EndOfPipe, Goto, Running, AtEnd
  <2>. QED
    BY <2>1, PhaseOf DEF FlowTypes
<1>4. CASE ReadByte(p)
  <2>1. /\ task' = [task EXCEPT ![p].phase = AfterByte(p)] /\ AfterByte(p) \notin Late
        /\ p \in alive /\ UNCHANGED <<shell, created>>
    BY <1>4 DEF ReadByte, Goto, Running, AfterByte, Late
  <2>. QED
    BY <1>4, <2>1, PhaseOf DEF FlowTypes
<1>5. CASE Echo(p)
  <2>1. /\ task' = [task EXCEPT ![p].phase = "read"] /\ "read" \notin Late
        /\ WriteByte(p)
        /\ p \in alive /\ UNCHANGED <<got, foreground, shell, created>>
    BY <1>5 DEF Echo, Goto, Running, Late
  <2>. QED
    BY <2>1, PhaseOf DEF FlowTypes
<1>6. CASE PrintByte(p)
  <2>1. /\ task' = [task EXCEPT ![p].left = task[p].left - 1]
        /\ WriteByte(p)
        /\ p \in alive /\ UNCHANGED <<got, foreground, shell, created>>
    BY <1>6 DEF PrintByte, Running
  <2>. QED
    BY <2>1, PhaseOf DEF FlowTypes
<1>7. CASE TakePrintSem(p)
  <2>1. /\ task' = [task EXCEPT ![p].phase = "printing", ![p].left = Head(task[p].pieces)]
        /\ task[p].phase \in Late
        /\ p \in alive /\ UNCHANGED <<ioVars, got, foreground, shell, created>>
    BY <1>7 DEF TakePrintSem, Running, Late
  <2>. QED
    BY <2>1, PhaseOf DEF FlowTypes
<1>8. CASE PostPrintSem(p)
  <2>1. /\ task' = [task EXCEPT ![p].pieces = Tail(task[p].pieces),
                               ![p].phase = AfterReading(Tail(task[p].pieces))]
        /\ task[p].phase \in Late
        /\ p \in alive /\ UNCHANGED <<ioVars, got, foreground, shell, created>>
    BY <1>8 DEF PostPrintSem, Running, Late
  <2>. QED
    BY <2>1, PhaseOf DEF FlowTypes
<1>. QED
  BY <1>1, <1>2, <1>3, <1>4, <1>5, <1>6, <1>7, <1>8 DEF Program

(* A program that runs is that of the writer or of the reader.             *)
LEMMA WhoRuns ==
    ASSUME FlowInv, NEW p \in Users, p \in alive
    PROVE  /\ shell.pc \in {"reader"} \union Awaiting
           /\ p = shell.writer \/ (p = shell.reader /\ shell.pc \in Awaiting)
           /\ shell.pipe \in PipeIds
           /\ shell.writer \in Users /\ (shell.pc \in Awaiting => shell.reader \in Users)
           /\ shell.reader # shell.writer \/ shell.pc = "reader"
           /\ shell.writer # Shell
<1>1. p # Shell
  BY PipelineFacts
<1>2. p \in Crew
  BY DEF FlowInv, CrewInv
<1>3. shell.pc \in {"reader"} \union Awaiting
  BY <1>1, <1>2 DEF Crew, Awaiting
<1>4. p = shell.writer \/ (p = shell.reader /\ shell.pc \in Awaiting)
  BY <1>1, <1>2 DEF Crew, Awaiting
<1>5. shell.pipe \in PipeIds
  BY <1>3 DEF FlowInv, HalfOpen, Flowing
<1>6. /\ shell.writer \in Users /\ (shell.pc \in Awaiting => shell.reader \in Users)
      /\ shell.reader # shell.writer \/ shell.pc = "reader"
  BY <1>3, PipelineFacts DEF FlowInv, CrewInv
<1>. QED
  BY <1>3, <1>4, <1>5, <1>6, PipelineFacts

\* The bytes of one pipe are replaced, and nothing else changes.
LEMMA BytesOf ==
    ASSUME FlowTypes, NEW i \in PipeIds, NEW b \in Seq(Procs),
           pipes' = [pipes EXCEPT ![i].bytes = b]
    PROVE  /\ pipes' \in [PipeIds -> PipeSlot]
           /\ \A j \in PipeIds \ {i} : pipes'[j] = pipes[j]
           /\ pipes'[i].bytes = b
           /\ pipes'[i].active = pipes[i].active /\ pipes'[i].eof = pipes[i].eof
           /\ pipes'[i].readers = pipes[i].readers /\ pipes'[i].writers = pipes[i].writers
<1> DEFINE v == [pipes[i] EXCEPT !.bytes = b]
<1>1. pipes \in [PipeIds -> PipeSlot] /\ pipes[i] \in PipeSlot
  BY DEF FlowTypes
<1>2. /\ v \in PipeSlot /\ v.bytes = b
      /\ v.active = pipes[i].active /\ v.eof = pipes[i].eof
      /\ v.readers = pipes[i].readers /\ v.writers = pipes[i].writers
  BY <1>1 DEF PipeSlot
<1>3. pipes' = [pipes EXCEPT ![i] = v]
  OBVIOUS
<1>. HIDE DEF v
<1>. QED
  BY <1>1, <1>2, <1>3

\* A step that leaves the shell where it is.
LEMMA SameStage ==
    ASSUME PipelineAssumption, FlowInv, [Next]_pipelineVars,
           NEW p \in Users, p \in alive,
           shell' = shell, created' = created, alive' \subseteq alive,
           pipes' \in [PipeIds -> PipeSlot], io' \in [Procs -> Descs], TaskShape',
           io'[Shell] = io[Shell], got' \in [Users -> SUBSET Users],
           \A q \in Users : q > created => got'[q] = got[q],
           foreground' \in {foreground, Nobody},
           HalfOpen', Flowing'
    PROVE  FlowInv'
<1>1. CrewInv'
  BY CrewStep DEF FlowInv
<1>2. shell'.pc \in {"reader"} \union Awaiting
  BY WhoRuns
<1>3. AtHome' /\ JustOpened'
  BY <1>2 DEF AtHome, JustOpened, Awaiting
<1>4. FlowTypes'
  BY PipelineFacts DEF FlowTypes, FlowInv, CrewInv
<1>5. NoDescriptor(Shell)'
  BY DEF FlowInv, NoDescriptor, Shell
<1>6. (\A q \in Users : q > created => got[q] = {})'
  BY DEF FlowInv
<1>7. (foreground \in alive \ {Shell} => foreground = shell.writer)'
  <2>1. Nobody \notin alive
    <3>1. Nobody \notin Crew
      BY PipelineFacts DEF FlowInv, CrewInv, Crew, Awaiting
    <3>. QED
      BY <3>1 DEF FlowInv, CrewInv
  <2>. QED
    BY <2>1 DEF FlowInv, Shell
<1>. QED
  BY <1>1, <1>3, <1>4, <1>5, <1>6, <1>7 DEF FlowInv

(* The writer writes into its pipe, or to the screen.                      *)
LEMMA WriterWrites ==
    ASSUME PipelineAssumption, FlowInv, [Next]_pipelineVars,
           NEW p \in Users, p \in alive, WriteByte(p),
           shell' = shell, created' = created, TaskShape',
           \A q \in Users \ {p} : task'[q] = task[q],
           UNCHANGED <<got, foreground>>,
           task'[p].phase \in Late => task[p].phase \in Late
    PROVE  FlowInv'
<1> DEFINE i == shell.pipe
           w == shell.writer
           r == shell.reader
<1>1. /\ shell.pc \in {"reader"} \union Awaiting
      /\ p = w \/ (p = r /\ shell.pc \in Awaiting)
      /\ i \in PipeIds /\ w \in Users /\ (shell.pc \in Awaiting => r \in Users /\ r # w)
  BY WhoRuns DEF Awaiting
<1>2. /\ OfTheWriter(i, w) /\ (shell.pc \in Awaiting => OfTheReader(i, w, r))
      /\ shell.pc = "reader" => (pipes[i].active => pipes[i].readers = 0)
      /\ shell.pc = "reader" => shell.command \in Commands
  BY <1>1 DEF FlowInv, HalfOpen, Flowing
<1>3. CASE p = r /\ shell.pc \in Awaiting
  <2>1. UNCHANGED ioVars
    BY <1>2, <1>3 DEF OfTheReader, ReadsFrom, WriteByte
  <2>2. Flowing' /\ HalfOpen'
    BY <1>1, <1>2, <1>3, <2>1
       DEF ioVars, Flowing, HalfOpen, Awaiting, OfTheWriter, OfTheReader, NoPipeBut,
           WritesTo, ReadsFrom
  <2>. QED
    BY <2>1, <2>2, SameStage DEF ioVars, FlowInv, FlowTypes
<1>4. CASE p = w
  <2>1. pipes[i].active /\ WritesTo(w, i) /\ ~ pipes[i].eof /\ pipes[i].bytes \in Seq({w})
    BY <1>2, <1>4 DEF OfTheWriter
  <2>2. process_write(w, "stdout")
    BY <1>1, <1>4, <2>1, PipelineFacts DEF WriteByte, WritesTo
  <2> DEFINE b == Append(pipes[i].bytes, w)
  <2>3. pipes' = [pipes EXCEPT ![i].bytes = b] /\ UNCHANGED <<io, alive, switched>>
    BY <2>1, <2>2 DEF process_write, WritesTo
  <2>4. b \in Seq({w}) /\ b \in Seq(Procs)
    <3>1. w \in Procs
      BY <1>1, PipelineFacts
    <3>2. b \in Seq({w})
      BY <2>1
    <3>. QED
      BY <3>1, <3>2
  <2>. HIDE DEF b
  <2>5. /\ pipes' \in [PipeIds -> PipeSlot]
        /\ \A j \in PipeIds \ {i} : pipes'[j] = pipes[j]
        /\ pipes'[i].bytes = b
        /\ pipes'[i].active = pipes[i].active /\ pipes'[i].eof = pipes[i].eof
        /\ pipes'[i].readers = pipes[i].readers /\ pipes'[i].writers = pipes[i].writers
    BY <1>1, <2>3, <2>4, BytesOf DEF FlowInv
  <2>. HIDE DEF i, w, r
  <2>6. OfTheWriter(i, w)'
    BY <1>2, <2>3, <2>4, <2>5 DEF OfTheWriter, NoPipeBut, WritesTo, i, w
  <2>7. shell.pc \in Awaiting => OfTheReader(i, w, r)'
    BY <1>1, <1>2, <1>4, <2>1, <2>3, <2>5 DEF OfTheReader, ReadsFrom, i, w, r
  <2>8. Flowing' /\ HalfOpen'
    BY <1>1, <1>2, <2>5, <2>6, <2>7 DEF Flowing, HalfOpen, i, w, r
  <2>. QED
    BY <2>3, <2>5, <2>8, SameStage DEF FlowInv, FlowTypes
<1>. QED
  BY <1>1, <1>3, <1>4

(* The reader reads a byte of its writer.                                  *)
LEMMA ReaderReads ==
    ASSUME PipelineAssumption, FlowInv, [Next]_pipelineVars,
           NEW p \in Users, p \in alive, ReadByte(p), TaskShape',
           \A q \in Users \ {p} : task'[q] = task[q],
           task'[p].phase \notin Late
    PROVE  FlowInv'
<1> DEFINE i == shell.pipe
           w == shell.writer
           r == shell.reader
<1>1. /\ shell.pc \in {"reader"} \union Awaiting
      /\ p = w \/ (p = r /\ shell.pc \in Awaiting)
      /\ i \in PipeIds /\ w \in Users /\ (shell.pc \in Awaiting => r \in Users /\ r # w)
  BY WhoRuns DEF Awaiting
<1>2. /\ OfTheWriter(i, w) /\ (shell.pc \in Awaiting => OfTheReader(i, w, r))
      /\ shell.pc = "reader" => (pipes[i].active => pipes[i].readers = 0)
  BY <1>1 DEF FlowInv, HalfOpen, Flowing
<1>3. /\ Readable(p)
      /\ pipes' = [pipes EXCEPT ![io[p]["stdin"]].bytes = Tail(@)]
      /\ got' = [got EXCEPT ![p] = @ \union {Head(pipes[io[p]["stdin"]].bytes)}]
      /\ UNCHANGED <<io, alive, switched, shell, foreground, created>>
  BY DEF ReadByte, process_read
<1>4. p = r /\ shell.pc \in Awaiting
  <2>1. p # w
    <3>1. io[p]["stdin"] \in PipeIds
      BY <1>3 DEF Readable, IsPipe
    <3>. QED
      BY <1>2, <3>1, PipelineFacts DEF OfTheWriter, WritesTo
  <2>. QED
    BY <1>1, <2>1
<1> DEFINE b == Tail(pipes[i].bytes)
           h == Head(pipes[i].bytes)
<1>5. /\ io[p]["stdin"] = i /\ pipes[i].bytes # <<>> /\ pipes[i].active
      /\ pipes[i].bytes \in Seq({w})
  BY <1>2, <1>3, <1>4 DEF OfTheReader, ReadsFrom, OfTheWriter, Readable
<1>6. h = w /\ b \in Seq({w}) /\ b \in Seq(Procs)
  <2>1. w \in Procs
    BY <1>1, PipelineFacts
  <2>2. h \in {w} /\ b \in Seq({w})
    BY <1>5
  <2>. HIDE DEF b, h
  <2>. QED
    BY <2>1, <2>2
<1>7. pipes' = [pipes EXCEPT ![i].bytes = b] /\ got' = [got EXCEPT ![r] = @ \union {w}]
  BY <1>3, <1>4, <1>5, <1>6
<1>. HIDE DEF b, h
<1>8. /\ pipes' \in [PipeIds -> PipeSlot]
      /\ \A j \in PipeIds \ {i} : pipes'[j] = pipes[j]
      /\ pipes'[i].bytes = b
      /\ pipes'[i].active = pipes[i].active /\ pipes'[i].eof = pipes[i].eof
      /\ pipes'[i].readers = pipes[i].readers /\ pipes'[i].writers = pipes[i].writers
  BY <1>1, <1>6, <1>7, BytesOf DEF FlowInv
<1>9. /\ got' \in [Users -> SUBSET Users] /\ got'[r] = got[r] \union {w}
      /\ \A q \in Users \ {r} : got'[q] = got[q]
  BY <1>1, <1>4, <1>7 DEF FlowInv, FlowTypes
<1>10. r <= created /\ shell' = shell
  BY <1>3, <1>4 DEF FlowInv, CrewInv
<1>. HIDE DEF i, w, r
<1>11. OfTheWriter(i, w)'
  BY <1>2, <1>3, <1>6, <1>8 DEF OfTheWriter, NoPipeBut, WritesTo, i, w
<1>12. OfTheReader(i, w, r)'
  BY <1>2, <1>3, <1>4, <1>5, <1>8, <1>9 DEF OfTheReader, ReadsFrom, i, w, r
<1>13. Flowing' /\ HalfOpen'
  BY <1>1, <1>4, <1>10, <1>11, <1>12 DEF Flowing, HalfOpen, Awaiting, i, w, r
<1>14. \A q \in Users : q > created => got'[q] = got[q]
  <2>1. r \in Users /\ r <= created /\ created \in Nat
    BY <1>1, <1>4, <1>10, PipelineFacts DEF FlowInv, CrewInv
  <2>. QED
    BY <1>9, <2>1, PipelineFacts
<1>. QED
  BY <1>3, <1>8, <1>9, <1>10, <1>13, <1>14, SameStage DEF FlowInv, FlowTypes

(* A step that moves no byte.                                              *)
LEMMA MovesNothing ==
    ASSUME PipelineAssumption, FlowInv, [Next]_pipelineVars,
           NEW p \in Users, p \in alive,
           shell' = shell, created' = created, TaskShape',
           \A q \in Users \ {p} : task'[q] = task[q],
           UNCHANGED <<ioVars, got, foreground>>,
           task'[p].phase \in Late => task[p].phase \in Late \/ AtEnd(p)
    PROVE  FlowInv'
<1> DEFINE i == shell.pipe
           w == shell.writer
           r == shell.reader
<1>1. /\ shell.pc \in {"reader"} \union Awaiting
      /\ p = w \/ (p = r /\ shell.pc \in Awaiting)
      /\ i \in PipeIds /\ w \in Users /\ (shell.pc \in Awaiting => r \in Users /\ r # w)
  BY WhoRuns DEF Awaiting
<1>2. /\ OfTheWriter(i, w) /\ (shell.pc \in Awaiting => OfTheReader(i, w, r))
      /\ shell.pc = "reader" => (pipes[i].active => pipes[i].readers = 0)
      /\ shell.pc = "reader" => shell.command \in Commands
  BY <1>1 DEF FlowInv, HalfOpen, Flowing
<1>3. UNCHANGED <<pipes, io, alive, switched>>
  BY DEF ioVars
<1>. HIDE DEF i, w, r
<1>4. OfTheWriter(i, w)'
  BY <1>2, <1>3 DEF OfTheWriter, NoPipeBut, WritesTo, i, w
<1>5. shell.pc \in Awaiting => OfTheReader(i, w, r)'
  <2>1. CASE p = r /\ shell.pc \in Awaiting
    <3>1. AtEnd(r) => pipes[i].eof /\ pipes[i].bytes = <<>>
      BY <1>1, <1>2, <2>1, PipelineFacts DEF AtEnd, OfTheReader, ReadsFrom
    <3>. QED
      BY <1>2, <1>3, <2>1, <3>1 DEF OfTheReader, ReadsFrom, i, w, r
  <2>2. CASE p = w
    BY <1>1, <1>2, <1>3, <2>2 DEF OfTheReader, ReadsFrom, i, w, r
  <2>. QED
    BY <1>1, <2>1, <2>2
<1>6. Flowing' /\ HalfOpen'
  BY <1>1, <1>2, <1>3, <1>4, <1>5 DEF Flowing, HalfOpen, i, w, r
<1>. QED
  BY <1>3, <1>6, SameStage DEF FlowInv, FlowTypes

\* The record of a pipe whose end was given back.
LEMMA EndGivenIs ==
    ASSUME NEW v \in PipeSlot, v.active, NEW fd \in {"stdin", "stdout"},
           NEW e, e = EndGiven(v, fd)
    PROVE  /\ e \in PipeSlot
           /\ e.active =>
                 /\ e.bytes = v.bytes
                 /\ fd = "stdin" => e.writers = v.writers /\ e.readers = Minus1(v.readers)
                 /\ fd = "stdout" => e.readers = v.readers /\ e.writers = Minus1(v.writers)
                 /\ ~ (e.readers = 0 /\ e.writers = 0 /\ e.bytes = <<>>)
           /\ ~ e.active /\ fd = "stdout" => v.readers = 0
<1> DEFINE m == Minus1(v.readers)
           n == Minus1(v.writers)
           f == v.eof \/ v.writers <= 1
           w == IF fd = "stdin" THEN [v EXCEPT !.readers = m]
                ELSE [v EXCEPT !.writers = n, !.eof = f]
<1>1. e = IF w.active /\ w.readers = 0 /\ w.writers = 0 /\ w.bytes = <<>>
          THEN FreeSlot ELSE w
  BY DEF EndGiven
<1>2. m \in Nat /\ n \in Nat /\ f \in BOOLEAN
  BY DEF Minus1, PipeSlot
<1>3. FreeSlot \in PipeSlot /\ ~ FreeSlot.active
  BY DEF FreeSlot, PipeSlot
<1>. HIDE DEF m, n, f
<1>4. /\ w \in PipeSlot /\ w.active /\ w.bytes = v.bytes
      /\ fd = "stdin" => w.writers = v.writers /\ w.readers = m
      /\ fd = "stdout" => w.readers = v.readers /\ w.writers = n
  BY <1>2 DEF PipeSlot
<1>. HIDE DEF w
<1>. QED
  BY <1>1, <1>3, <1>4 DEF m, n

(* The writer ends, by itself or by Ctrl+C: the pipe goes with it, or stays *)
(* for who reads it.                                                       *)
LEMMA WriterEnds ==
    ASSUME PipelineAssumption, FlowInv, [Next]_pipelineVars,
           NEW p \in Users, p = shell.writer, terminate_process(p),
           UNCHANGED <<shell, created, task, got>>, foreground' \in {foreground, Nobody}
    PROVE  FlowInv'
<1> DEFINE i == shell.pipe
           r == shell.reader
<1>0. p \in alive
  BY DEF terminate_process
<1>1. /\ shell.pc \in {"reader"} \union Awaiting
      /\ i \in PipeIds /\ (shell.pc \in Awaiting => r \in Users /\ r # p)
  BY <1>0, WhoRuns DEF Awaiting
<1>2. /\ OfTheWriter(i, p) /\ (shell.pc \in Awaiting => OfTheReader(i, p, r))
      /\ shell.pc = "reader" => (pipes[i].active => pipes[i].readers = 0)
      /\ shell.pc = "reader" => shell.command \in Commands
  BY <1>1 DEF FlowInv, HalfOpen, Flowing
<1>3. /\ pipes[i].active /\ WritesTo(p, i)
      /\ pipes[i].bytes \in Seq({p}) /\ pipes[i].writers = 1
  BY <1>0, <1>2 DEF OfTheWriter
<1>4. p \in Procs /\ p # Shell
  BY PipelineFacts
<1> DEFINE e == EndGiven(pipes[i], "stdout")
<1>5. /\ pipes' = [pipes EXCEPT ![i] = e]
      /\ \A q \in Procs \ {p} : io'[q] = io[q]
      /\ io' \in [Procs -> Descs] /\ alive' = alive \ {p}
  <2>1. /\ FlowTypes /\ i \in PipeIds /\ "stdout" \in {"stdin", "stdout"}
        /\ io[p]["stdout"] = i /\ \A f \in Fds \ {"stdout"} : io[p][f] = Console
    BY <1>1, <1>3, PipelineFacts DEF FlowInv, WritesTo
  <2>. QED
    BY <1>3, <1>4, <2>1, OneEndIsGiven
<1>6. pipes \in [PipeIds -> PipeSlot]
  BY DEF FlowInv, FlowTypes
<1>7. /\ e \in PipeSlot
      /\ e.active => /\ e.bytes = pipes[i].bytes /\ e.readers = pipes[i].readers
                     /\ e.writers = 0
      /\ ~ e.active => pipes[i].readers = 0
  <2>1. /\ pipes[i] \in PipeSlot /\ "stdout" \in {"stdin", "stdout"}
        /\ e = EndGiven(pipes[i], "stdout")
    BY <1>1, <1>6
  <2>. HIDE DEF e
  <2>2. /\ e \in PipeSlot
        /\ e.active => /\ e.bytes = pipes[i].bytes /\ e.readers = pipes[i].readers
                       /\ e.writers = Minus1(pipes[i].writers)
        /\ ~ e.active => pipes[i].readers = 0
    BY <1>3, <2>1, EndGivenIs
  <2>. QED
    BY <1>3, <2>2 DEF Minus1
<1>. HIDE DEF e
<1>8. /\ pipes' \in [PipeIds -> PipeSlot] /\ pipes'[i] = e
      /\ \A j \in PipeIds \ {i} : pipes'[j] = pipes[j]
  BY <1>1, <1>5, <1>6, <1>7
<1>. HIDE DEF i, r
<1>9. OfTheWriter(i, p)'
  BY <1>2, <1>3, <1>5, <1>7, <1>8 DEF OfTheWriter, NoPipeBut, i
<1>10. shell.pc \in Awaiting => OfTheReader(i, p, r)'
  <2>1. ASSUME shell.pc \in Awaiting
        PROVE  r \in alive /\ pipes[i].readers = 1 /\ e.active /\ r \in alive'
               /\ io'[r] = io[r]
    BY <1>1, <1>2, <1>3, <1>5, <1>7, <2>1, PipelineFacts DEF OfTheReader
  <2>2. shell.pc \in Awaiting => ~ (task[r].phase \in Late)
    BY <1>0, <1>2, <1>3, <2>1 DEF OfTheReader, OfTheWriter
  <2>. QED
    BY <1>2, <1>7, <1>8, <2>1, <2>2 DEF OfTheReader, ReadsFrom, i, r
<1>11. Flowing' /\ HalfOpen'
  <2>1. Flowing'
    BY <1>1, <1>9, <1>10 DEF Flowing, i, r
  <2>2. HalfOpen'
    BY <1>1, <1>2, <1>3, <1>7, <1>8, <1>9 DEF HalfOpen, i
  <2>. QED
    BY <2>1, <2>2
<1>12. io'[Shell] = io[Shell]
  BY <1>4, <1>5, PipelineFacts
<1>. QED
  BY <1>0, <1>5, <1>8, <1>11, <1>12, SameStage DEF FlowInv, FlowTypes, TaskShape

(* The reader ends when it has read all, and the pipe with it.             *)
LEMMA ReaderEnds ==
    ASSUME PipelineAssumption, FlowInv, [Next]_pipelineVars,
           NEW p \in Users, p = shell.reader, shell.pc \in Awaiting, terminate_process(p),
           task[p].phase \in Late,
           UNCHANGED <<shell, created, task, got>>, foreground' \in {foreground, Nobody}
    PROVE  FlowInv'
<1> DEFINE i == shell.pipe
           w == shell.writer
<1>0. p \in alive
  BY DEF terminate_process
<1>1. i \in PipeIds /\ w \in Users /\ p # w /\ shell.pc # "reader"
  BY <1>0, WhoRuns DEF Awaiting
<1>2. OfTheWriter(i, w) /\ OfTheReader(i, w, p)
  BY DEF FlowInv, Flowing
<1>3. /\ pipes[i].active /\ ReadsFrom(p, i) /\ pipes[i].bytes = <<>> /\ pipes[i].eof
      /\ pipes[i].readers = 1
  BY <1>0, <1>2 DEF OfTheReader
<1>4. w \notin alive /\ pipes[i].writers = 0
  BY <1>2, <1>3 DEF OfTheWriter
<1>5. p \in Procs /\ p # Shell
  BY PipelineFacts
<1> DEFINE e == EndGiven(pipes[i], "stdin")
<1>6. /\ pipes' = [pipes EXCEPT ![i] = e]
      /\ \A q \in Procs \ {p} : io'[q] = io[q]
      /\ io' \in [Procs -> Descs] /\ alive' = alive \ {p}
  BY <1>1, <1>3, <1>5, OneEndIsGiven, PipelineFacts DEF FlowInv, ReadsFrom
<1>7. pipes \in [PipeIds -> PipeSlot]
  BY DEF FlowInv, FlowTypes
<1>8. e \in PipeSlot /\ ~ e.active
  <2>1. /\ pipes[i] \in PipeSlot /\ "stdin" \in {"stdin", "stdout"}
        /\ e = EndGiven(pipes[i], "stdin")
    BY <1>1, <1>7
  <2>. HIDE DEF e
  <2>2. /\ e \in PipeSlot
        /\ e.active => /\ e.writers = pipes[i].writers /\ e.bytes = pipes[i].bytes
                       /\ e.readers = Minus1(pipes[i].readers)
                       /\ ~ (e.readers = 0 /\ e.writers = 0 /\ e.bytes = <<>>)
    BY <1>3, <2>1, EndGivenIs
  <2>. QED
    BY <1>3, <1>4, <2>2 DEF Minus1
<1>. HIDE DEF e
<1>9. /\ pipes' \in [PipeIds -> PipeSlot] /\ pipes'[i] = e
      /\ \A j \in PipeIds \ {i} : pipes'[j] = pipes[j]
  BY <1>1, <1>6, <1>7, <1>8
<1>. HIDE DEF i, w
<1>10. OfTheWriter(i, w)' /\ OfTheReader(i, w, p)'
  BY <1>2, <1>4, <1>6, <1>8, <1>9 DEF OfTheWriter, OfTheReader, NoPipeBut, i, w
<1>11. Flowing' /\ HalfOpen'
  BY <1>1, <1>10 DEF Flowing, HalfOpen, i, w
<1>12. io'[Shell] = io[Shell]
  BY <1>5, <1>6, PipelineFacts
<1>. QED
  BY <1>0, <1>6, <1>9, <1>11, <1>12, SameStage DEF FlowInv, FlowTypes, TaskShape

(* Whatever the programs do.                                               *)
LEMMA ProgramKeepsFlow ==
    ASSUME PipelineAssumption, FlowInv, NEW p \in Users, Program(p)
    PROVE  FlowInv'
<1>0. [Next]_pipelineVars
  BY DEF Next
<1>1. /\ p \in alive /\ shell' = shell /\ created' = created
      /\ TaskShape' /\ \A q \in Users \ {p} : task'[q] = task[q]
      /\ \/ Exit(p) /\ UNCHANGED <<task, got>>
         \/ /\ UNCHANGED <<ioVars, got, foreground>>
            /\ task'[p].phase \in Late => task[p].phase \in Late \/ AtEnd(p)
         \/ /\ WriteByte(p) /\ UNCHANGED <<got, foreground>>
            /\ task'[p].phase \in Late => task[p].phase \in Late
         \/ ReadByte(p) /\ task'[p].phase \notin Late
  BY ProgramDoes DEF FlowInv
<1>2. CASE Exit(p) /\ UNCHANGED <<task, got>>
  <2>1. /\ terminate_process(p) /\ foreground' \in {foreground, Nobody}
        /\ task[p].phase \in Late
    BY <1>2 DEF Exit, terminate_program, Running, Late
  <2>2. p = shell.writer \/ (p = shell.reader /\ shell.pc \in Awaiting)
    BY <1>1, WhoRuns
  <2>. QED
    BY <1>0, <1>1, <1>2, <2>1, <2>2, WriterEnds, ReaderEnds
<1>3. CASE /\ UNCHANGED <<ioVars, got, foreground>>
           /\ task'[p].phase \in Late => task[p].phase \in Late \/ AtEnd(p)
  BY <1>0, <1>1, <1>3, MovesNothing
<1>4. CASE /\ WriteByte(p) /\ UNCHANGED <<got, foreground>>
           /\ task'[p].phase \in Late => task[p].phase \in Late
  BY <1>0, <1>1, <1>4, WriterWrites
<1>5. CASE ReadByte(p) /\ task'[p].phase \notin Late
  BY <1>0, <1>1, <1>5, ReaderReads
<1>. QED
  BY <1>1, <1>2, <1>3, <1>4, <1>5

\* Whoever stands at the end of a pipeline reads all there is.
ReadersRead == \A c \in Commands : c[2] \in Reads

\* At the prompt nothing is left, or no further pipeline is begun.
LEMMA ComesHome ==
    ASSUME FlowInv, CrewInv', FlowTypes', io'[Shell] = io[Shell],
           shell'.pc \in {"prompt", "typing"}, alive' \subseteq {Shell},
           got' = got, created' >= created,
           Stopped' \/ \A i \in PipeIds : ~ pipes'[i].active
    PROVE  FlowInv'
<1>1. AtHome' /\ JustOpened' /\ HalfOpen' /\ Flowing'
  BY DEF AtHome, JustOpened, HalfOpen, Flowing, Awaiting
<1>2. NoDescriptor(Shell)'
  BY DEF FlowInv, NoDescriptor, Shell
<1>3. (\A q \in Users : q > created => got[q] = {})'
  <2>1. created \in Int /\ created' \in Int
    BY PipelineFacts DEF FlowInv, CrewInv
  <2>. QED
    BY <2>1, PipelineFacts DEF FlowInv
<1>4. (foreground \in alive \ {Shell} => foreground = shell.writer)'
  BY DEF Shell
<1>. QED
  BY <1>1, <1>2, <1>3, <1>4 DEF FlowInv

\* The pipe's slot is the first free one, and fresh.
LEMMA OpensFresh ==
    ASSUME PipelineAssumption, FlowInv, NEW c \in Commands, NEW i \in OpenAt(pipes, c[1]),
           \A j \in PipeIds : ~ pipes[j].active, sys_pipe_open(c[1])
    PROVE  /\ i \in PipeIds /\ pipes' \in [PipeIds -> PipeSlot]
           /\ pipes'[i] = [FreeSlot EXCEPT !.name = c[1], !.active = TRUE]
           /\ \A j \in PipeIds \ {i} : pipes'[j] = pipes[j]
<1>1. PICK k \in OpenAt(pipes, c[1]) : pipes' = pipe_open(pipes, c[1], k)
  BY DEF sys_pipe_open
<1>2. find_pipe(pipes, c[1]) = {}
  BY DEF find_pipe
<1>3. \A x \in OpenAt(pipes, c[1]) : /\ x \in PipeIds
                                     /\ \A y \in OpenAt(pipes, c[1]) : x <= y
  BY <1>2 DEF OpenAt, FreePipes
<1>4. k = i /\ i \in PipeIds
  BY <1>1, <1>3, PipelineFacts
<1> DEFINE v == [FreeSlot EXCEPT !.name = c[1], !.active = TRUE]
<1>5. pipes' = [pipes EXCEPT ![i] = v]
  BY <1>1, <1>4 DEF pipe_open
<1>6. v \in PipeSlot
  <2>1. c[1] \in PipeNames
    BY DEF PipelineAssumption, Programs
  <2>2. FreeSlot \in PipeSlot
    BY DEF FreeSlot, PipeSlot
  <2>. QED
    BY <2>1, <2>2 DEF PipeSlot
<1>. HIDE DEF v
<1>7. pipes \in [PipeIds -> PipeSlot]
  BY DEF FlowInv, FlowTypes
<1>8. /\ pipes' \in [PipeIds -> PipeSlot] /\ pipes'[i] = v
      /\ \A j \in PipeIds \ {i} : pipes'[j] = pipes[j]
  BY <1>4, <1>5, <1>6, <1>7
<1>. QED
  BY <1>4, <1>8 DEF v

(* The user types a pipeline.                                              *)
LEMMA OpenKeepsFlow ==
    ASSUME PipelineAssumption, FlowInv, OpenPipe
    PROVE  FlowInv'
<1>0. CrewInv'
  BY CrewStep DEF FlowInv, Next
<1>1. /\ shell.pc = "typing" /\ created + 2 <= 2 * MaxPipelines
      /\ UNCHANGED <<io, alive, switched, task, got, print_sem, foreground, created>>
  BY DEF OpenPipe, sys_pipe_open, ioVars
<1>2. \A j \in PipeIds : ~ pipes[j].active
  <2>1. ~ Stopped
    BY <1>1, PipelineFacts DEF Stopped, FlowInv, CrewInv
  <2>. QED
    BY <1>1, <2>1 DEF FlowInv, AtHome
<1>3. alive = {Shell}
  BY <1>1 DEF FlowInv, CrewInv, Crew
<1>4. created \in Int
  BY PipelineFacts DEF FlowInv, CrewInv
<1>5. CASE shell' = [shell EXCEPT !.pc = "prompt"] /\ UNCHANGED ioVars
  <2>1. shell'.pc = "prompt"
    BY <1>5 DEF FlowInv, CrewInv, ShellRecord
  <2>2. FlowTypes'
    BY <1>1, <1>5 DEF FlowInv, FlowTypes, TaskShape, ioVars
  <2>3. (\A i \in PipeIds : ~ pipes'[i].active) /\ created' >= created
    BY <1>1, <1>2, <1>4, <1>5 DEF ioVars
  <2>. QED
    BY <1>0, <1>1, <1>3, <2>1, <2>2, <2>3, ComesHome
<1>6. ASSUME NEW c \in Commands, sys_pipe_open(c[1]), NEW i \in OpenAt(pipes, c[1]),
             shell' = [pc |-> "writer", command |-> c, pipe |-> i,
                       writer |-> Nobody, reader |-> Nobody]
      PROVE  FlowInv'
  <2>1. /\ i \in PipeIds /\ pipes' \in [PipeIds -> PipeSlot]
        /\ pipes'[i] = [FreeSlot EXCEPT !.name = c[1], !.active = TRUE]
        /\ \A j \in PipeIds \ {i} : pipes'[j] = pipes[j]
    BY <1>2, <1>6, OpensFresh
  <2>2. /\ shell'.pc = "writer" /\ shell'.pipe = i /\ shell'.command = c
    BY <1>6
  <2>3. JustOpened'
    BY <1>2, <2>1, <2>2 DEF JustOpened, NoPipeBut
  <2>4. AtHome' /\ HalfOpen' /\ Flowing'
    BY <2>2 DEF AtHome, HalfOpen, Flowing, Awaiting
  <2>5. FlowTypes'
    BY <1>1, <2>1 DEF FlowInv, FlowTypes, TaskShape
  <2>6. /\ NoDescriptor(Shell)' /\ (\A q \in Users : q > created => got[q] = {})'
        /\ (foreground \in alive \ {Shell} => foreground = shell.writer)'
    BY <1>1, <1>3 DEF FlowInv, NoDescriptor, Shell
  <2>. QED
    BY <1>0, <2>3, <2>4, <2>5, <2>6 DEF FlowInv
<1>7. \E c \in Commands :
         \/ shell' = [shell EXCEPT !.pc = "prompt"] /\ UNCHANGED ioVars
         \/ /\ sys_pipe_open(c[1])
            /\ \E i \in OpenAt(pipes, c[1]) :
                  shell' = [pc |-> "writer", command |-> c, pipe |-> i,
                            writer |-> Nobody, reader |-> Nobody]
  BY DEF OpenPipe
<1>. QED
  BY <1>5, <1>6, <1>7

\* A new task has the shape of a task.
LEMMA TaskIsGiven ==
    ASSUME TaskShape, NEW p \in Users, NEW g, task' = [task EXCEPT ![p] = NewTask(g)]
    PROVE  TaskShape' /\ task'[p] = NewTask(g) /\ \A q \in Users \ {p} : task'[q] = task[q]
<1>1. DOMAIN NewTask(g) = {"program", "pieces", "left", "keys", "phase"}
  BY DEF NewTask
<1>2. /\ DOMAIN task' = Users
      /\ \A q \in Users : task'[q] = IF q = p THEN NewTask(g) ELSE task[q]
  BY DEF TaskShape
<1>. QED
  BY <1>1, <1>2 DEF TaskShape

(* The writer is created, with the pipe as its output.                     *)
LEMMA WriterIsCreated ==
    ASSUME PipelineAssumption, FlowInv, CreateWriter
    PROVE  FlowInv'
<1> DEFINE i == shell.pipe
           w == Child
<1>0. CrewInv' /\ created \in Nat /\ alive = {Shell}
  <2>1. CrewInv'
    BY CrewStep DEF FlowInv, Next, pipes_cmd
  <2>. QED
    BY <2>1, PipelineFacts DEF CreateWriter, FlowInv, CrewInv, Crew
<1>1. /\ shell.pc = "writer" /\ Create(build_writer_config, shell.command[1])
      /\ shell' = [shell EXCEPT !.pc = "reader", !.writer = Child]
      /\ foreground' = Child /\ created' = Child
      /\ task' = [task EXCEPT ![Child] = NewTask(shell.command[1])] /\ got' = got
  BY DEF CreateWriter, Create
<1>2. Child \in Users /\ Child \in Procs /\ Child = created + 1
  BY <1>0, <1>1, PipelineFacts DEF FlowInv, CrewInv, Child
<1>3. /\ i \in PipeIds /\ shell.command \in Commands /\ NoPipeBut(i)
      /\ pipes[i] = [FreeSlot EXCEPT !.name = shell.command[1], !.active = TRUE]
  BY <1>1 DEF FlowInv, JustOpened
<1>4. /\ pipes[i].active /\ pipes[i].bytes = <<>> /\ pipes[i].eof = FALSE
      /\ pipes[i].readers = 0 /\ pipes[i].writers = 0
  BY <1>3 DEF FreeSlot
<1>5. build_writer_config =
         [stdin |-> IF "stdout" = "stdin" THEN i ELSE Console,
          stdout |-> IF "stdout" = "stdout" THEN i ELSE Console, stderr |-> Console]
  BY DEF build_writer_config
<1>6. /\ alive' = {Shell, w}
      /\ pipes' = Registered(pipes, "stdout", i)
      /\ io'[w]["stdout"] = i
      /\ \A f \in Fds \ {"stdout"} : io'[w][f] = Console
      /\ \A q \in Procs \ {w} : io'[q] = io[q]
      /\ io' \in [Procs -> Descs]
  <2>1. FlowTypes /\ NoDescriptor(Shell) /\ "stdout" \in {"stdin", "stdout"}
    BY DEF FlowInv
  <2>2. /\ alive' = alive \union {Child}
        /\ pipes' = Registered(pipes, "stdout", i)
        /\ io'[Child]["stdout"] = i
        /\ \A f \in Fds \ {"stdout"} : io'[Child][f] = Console
        /\ \A q \in Procs \ {Child} : io'[q] = io[q]
        /\ io' \in [Procs -> Descs]
    <3>1. PICK config, g : config = build_writer_config /\ g = shell.command[1]
      OBVIOUS
    <3>. HIDE DEF i
    <3>2. /\ Create(config, g) /\ i \in PipeIds /\ Child \in Procs
          /\ config = [stdin |-> IF "stdout" = "stdin" THEN i ELSE Console,
                       stdout |-> IF "stdout" = "stdout" THEN i ELSE Console,
                       stderr |-> Console]
      BY <1>1, <1>2, <1>3, <1>5, <3>1
    <3>. QED
      BY <1>4, <2>1, <3>2, OneEndIsCreated
  <2>. QED
    BY <1>0, <2>2
<1>7. /\ pipes' \in [PipeIds -> PipeSlot]
      /\ \A j \in PipeIds \ {i} : pipes'[j] = pipes[j]
      /\ pipes'[i].active = pipes[i].active /\ pipes'[i].bytes = pipes[i].bytes
      /\ pipes'[i].eof = pipes[i].eof /\ pipes'[i].readers = pipes[i].readers
      /\ pipes'[i].writers = pipes[i].writers + 1
  <2>1. pipes \in [PipeIds -> PipeSlot] /\ "stdout" \in {"stdin", "stdout"}
    BY DEF FlowInv, FlowTypes
  <2>2. i \in PipeIds /\ pipes' = Registered(pipes, "stdout", i) /\ "stdout" # "stdin"
    BY <1>3, <1>6
  <2>. HIDE DEF i, w
  <2>. QED
    BY <2>1, <2>2, RegisteredCounts
<1>8. /\ pipes'[i].active /\ pipes'[i].bytes = <<>> /\ ~ pipes'[i].eof
      /\ pipes'[i].readers = 0 /\ pipes'[i].writers = 1
  BY <1>4, <1>7
<1>9. shell'.pc = "reader" /\ shell'.writer = w /\ shell'.pipe = i
      /\ shell'.command = shell.command
  BY <1>1 DEF FlowInv, CrewInv, ShellRecord
<1>10. TaskShape'
  BY <1>1, <1>2, TaskIsGiven DEF FlowInv, FlowTypes
<1>11. w # Shell /\ Shell \in Procs
  BY <1>0, <1>2, PipelineFacts
<1>12. /\ NoDescriptor(Shell)'
       /\ (foreground \in alive \ {Shell} => foreground = shell.writer)'
  BY <1>1, <1>6, <1>9, <1>11 DEF FlowInv, NoDescriptor, Shell
<1>13. (\A q \in Users : q > created => got[q] = {})'
  BY <1>0, <1>1, <1>2, PipelineFacts DEF FlowInv
<1>14. FlowTypes'
  <2>1. foreground' \in Int /\ foreground' <= created'
    BY <1>0, <1>1, <1>2
  <2>. QED
    BY <1>1, <1>6, <1>7, <1>10, <2>1 DEF FlowInv, FlowTypes
<1>. HIDE DEF i, w
<1>15. HalfOpen'
  <2>1. \A j \in PipeIds \ {i} : ~ pipes'[j].active
    BY <1>3, <1>7 DEF NoPipeBut
  <2>2. io'[w]["stdin"] = Console /\ io'[w]["stderr"] = Console
    BY <1>6, PipelineFacts
  <2>3. pipes'[i].bytes \in Seq({w})
    BY <1>8
  <2>. QED
    BY <1>3, <1>6, <1>8, <1>9, <2>1, <2>2, <2>3
       DEF HalfOpen, OfTheWriter, NoPipeBut, WritesTo
<1>16. AtHome' /\ JustOpened' /\ Flowing'
  BY <1>9 DEF AtHome, JustOpened, Flowing, Awaiting
<1>. QED
  BY <1>0, <1>12, <1>13, <1>14, <1>15, <1>16 DEF FlowInv

(* The reader is created, with the pipe as its input.                      *)
LEMMA ReaderIsCreated ==
    ASSUME PipelineAssumption, ReadersRead, FlowInv, CreateReader
    PROVE  FlowInv'
<1> DEFINE i == shell.pipe
           w == shell.writer
           r == Child
<1>0. CrewInv'
  BY CrewStep DEF FlowInv, Next, pipes_cmd
<1>1. /\ shell.pc = "reader" /\ Create(build_reader_config, shell.command[2])
      /\ Child \in alive'
      /\ shell' = [shell EXCEPT !.pc = "wait_writer", !.reader = Child]
      /\ foreground' = foreground /\ created' = Child
      /\ task' = [task EXCEPT ![Child] = NewTask(shell.command[2])] /\ got' = got
  BY DEF CreateReader, Create
<1>2. /\ Child \in Users /\ Child \in Procs /\ Child = created + 1 /\ created \in Nat
      /\ w = created /\ w \in Users /\ alive \subseteq {Shell, w}
  BY <1>1, PipelineFacts DEF FlowInv, CrewInv, Crew, Child
<1>3. /\ i \in PipeIds /\ shell.command \in Commands /\ OfTheWriter(i, w)
      /\ pipes[i].active => pipes[i].readers = 0
  BY <1>1 DEF FlowInv, HalfOpen
<1>4. build_reader_config =
         [stdin |-> IF "stdin" = "stdin" THEN i ELSE Console,
          stdout |-> IF "stdin" = "stdout" THEN i ELSE Console, stderr |-> Console]
  BY DEF build_reader_config
<1>5. /\ pipes[i].active
      /\ alive' = alive \union {r}
      /\ pipes' = Registered(pipes, "stdin", i)
      /\ io'[r]["stdin"] = i
      /\ \A f \in Fds \ {"stdin"} : io'[r][f] = Console
      /\ \A q \in Procs \ {r} : io'[q] = io[q]
      /\ io' \in [Procs -> Descs]
  <2>1. FlowTypes /\ NoDescriptor(Shell) /\ "stdin" \in {"stdin", "stdout"}
    BY DEF FlowInv
  <2>2. PICK config, g : config = build_reader_config /\ g = shell.command[2]
    OBVIOUS
  <2>. HIDE DEF i
  <2>3. /\ Create(config, g) /\ i \in PipeIds /\ Child \in Procs
        /\ config = [stdin |-> IF "stdin" = "stdin" THEN i ELSE Console,
                     stdout |-> IF "stdin" = "stdout" THEN i ELSE Console,
                     stderr |-> Console]
    BY <1>1, <1>2, <1>3, <1>4, <2>2
  <2>4. pipes[i].active
    BY <1>1, <2>1, <2>3, OneEndIsCreated
  <2>. QED
    BY <2>1, <2>3, <2>4, OneEndIsCreated
<1>6. /\ pipes' \in [PipeIds -> PipeSlot]
      /\ \A j \in PipeIds \ {i} : pipes'[j] = pipes[j]
      /\ pipes'[i].active = pipes[i].active /\ pipes'[i].bytes = pipes[i].bytes
      /\ pipes'[i].eof = pipes[i].eof /\ pipes'[i].writers = pipes[i].writers
      /\ pipes'[i].readers = pipes[i].readers + 1
  <2>1. pipes \in [PipeIds -> PipeSlot] /\ "stdin" \in {"stdin", "stdout"}
    BY DEF FlowInv, FlowTypes
  <2>2. i \in PipeIds /\ pipes' = Registered(pipes, "stdin", i)
    BY <1>3, <1>5
  <2>. HIDE DEF i, w, r
  <2>. QED
    BY <2>1, <2>2, RegisteredCounts
<1>7. /\ shell'.pc = "wait_writer" /\ shell'.writer = w /\ shell'.reader = r
      /\ shell'.pipe = i
  BY <1>1 DEF FlowInv, CrewInv, ShellRecord
<1>8. TaskShape' /\ task'[r] = NewTask(shell.command[2])
  BY <1>1, <1>2, TaskIsGiven DEF FlowInv, FlowTypes
<1>9. task'[r].phase \notin Late
  BY <1>3, <1>8 DEF ReadersRead, NewTask, Late
<1>10. r # w /\ r # Shell /\ w # Shell /\ Shell \in Procs /\ w \in Procs
  BY <1>2, PipelineFacts
<1>11. FlowTypes'
  <2>1. foreground' \in Int /\ foreground' <= created'
    BY <1>1, <1>2 DEF FlowInv, FlowTypes
  <2>. QED
    BY <1>1, <1>5, <1>6, <1>8, <2>1 DEF FlowInv, FlowTypes
<1>12. foreground # r
  BY <1>2 DEF FlowInv, FlowTypes
<1>13. /\ NoDescriptor(Shell)'
       /\ (foreground \in alive \ {Shell} => foreground = shell.writer)'
  BY <1>1, <1>5, <1>7, <1>10, <1>12 DEF FlowInv, NoDescriptor, Shell
<1>14. (\A q \in Users : q > created => got[q] = {})' /\ got'[r] = {}
  BY <1>1, <1>2, PipelineFacts DEF FlowInv
<1>15. /\ io'[r]["stdin"] = i /\ io'[r]["stdout"] = Console /\ io'[r]["stderr"] = Console
       /\ io'[w] = io[w] /\ (w \in alive' <=> w \in alive)
       /\ pipes'[i].readers = 1
  BY <1>3, <1>5, <1>6, <1>10, PipelineFacts
<1>16. shell.pc # "wait_writer"
  BY <1>1
<1>. HIDE DEF i, w, r
<1>17. Flowing'
  <2>1. /\ \A j \in PipeIds \ {i} : ~ pipes'[j].active
        /\ w \in alive' => pipes'[i].active /\ io'[w]["stdin"] = Console
                           /\ io'[w]["stdout"] = i /\ io'[w]["stderr"] = Console
        /\ pipes'[i].active =>
              /\ pipes'[i].bytes \in Seq({w})
              /\ pipes'[i].writers = IF w \in alive' THEN 1 ELSE 0
              /\ pipes'[i].eof => w \notin alive'
    BY <1>3, <1>5, <1>6, <1>15 DEF OfTheWriter, NoPipeBut, WritesTo
  <2>2. /\ got'[r] \subseteq {w} /\ r \in alive' /\ pipes'[i].active
    BY <1>5, <1>6, <1>14
  <2>. QED
    BY <1>3, <1>7, <1>9, <1>15, <2>1, <2>2
       DEF Flowing, OfTheWriter, OfTheReader, NoPipeBut, WritesTo, ReadsFrom
<1>18. AtHome' /\ JustOpened' /\ HalfOpen'
  BY <1>7 DEF AtHome, JustOpened, HalfOpen
<1>. QED
  BY <1>0, <1>11, <1>13, <1>14, <1>17, <1>18 DEF FlowInv

(* A creation is refused: the pipeline comes to nothing, and is the last,  *)
(* or leaves no pipe.                                                      *)
LEMMA RefusalKeepsFlow ==
    ASSUME PipelineAssumption, FlowInv, NoWriter \/ NoReader
    PROVE  FlowInv'
<1>0. CrewInv'
  BY CrewStep DEF FlowInv, Next, pipes_cmd
<1>1. /\ created \in Int /\ foreground \in Int /\ foreground <= created
      /\ pipes \in [PipeIds -> PipeSlot]
  BY PipelineFacts DEF FlowInv, CrewInv, FlowTypes
<1>2. CASE NoWriter
  <2> DEFINE i == shell.pipe
  <2>1. /\ shell.pc = "writer" /\ shell' = [shell EXCEPT !.pc = "prompt"]
        /\ created' = created + 2 /\ pipes' = pipe_destroy_if_unused(pipes, i)
        /\ created >= 2 * (MaxPipelines - 1)
        /\ UNCHANGED <<io, alive, task, got, foreground>>
    BY <1>2 DEF NoWriter, sys_pipe_close, Trouble
  <2>2. i \in PipeIds /\ alive = {Shell}
    BY <2>1 DEF FlowInv, JustOpened, CrewInv, Crew
  <2>3. pipes' \in [PipeIds -> PipeSlot]
    <3>1. FreeSlot \in PipeSlot
      BY DEF FreeSlot, PipeSlot
    <3>. HIDE DEF i
    <3>. QED
      BY <1>1, <2>1, <2>2, <3>1 DEF pipe_destroy_if_unused
  <2>4. shell'.pc = "prompt"
    BY <2>1 DEF FlowInv, CrewInv, ShellRecord
  <2>5. Stopped' /\ created' >= created /\ foreground' \in Int /\ foreground' <= created'
    BY <1>1, <2>1, PipelineFacts DEF Stopped
  <2>6. FlowTypes'
    BY <2>1, <2>3, <2>5 DEF FlowInv, FlowTypes, TaskShape
  <2>. QED
    BY <1>0, <2>1, <2>2, <2>4, <2>5, <2>6, ComesHome
<1>3. CASE NoReader
  <2> DEFINE i == shell.pipe
             w == shell.writer
  <2>1. /\ shell.pc = "reader" /\ shell' = [shell EXCEPT !.pc = "prompt"]
        /\ created' = created + 1 /\ UNCHANGED <<task, got>>
        /\ Trouble \/ ~ pipes[i].active
    BY <1>3 DEF NoReader
  <2>2. /\ i \in PipeIds /\ OfTheWriter(i, w) /\ w \in Users /\ w \in Procs
        /\ alive \subseteq {Shell, w}
    BY <2>1, PipelineFacts DEF FlowInv, HalfOpen, CrewInv, Crew
  <2>3. shell'.pc = "prompt"
    BY <2>1 DEF FlowInv, CrewInv, ShellRecord
  <2>4. created' \in Int /\ created' >= created
    BY <1>1, <2>1
  <2>5. CASE w \in alive
    <3>1. terminate_process(w) /\ foreground' \in {foreground, Nobody}
      BY <1>3, <2>5 DEF NoReader
    <3>2. pipes[i].active /\ WritesTo(w, i)
      BY <2>2, <2>5 DEF OfTheWriter
    <3> DEFINE e == EndGiven(pipes[i], "stdout")
    <3>3. /\ pipes' = [pipes EXCEPT ![i] = e]
          /\ \A q \in Procs \ {w} : io'[q] = io[q]
          /\ io' \in [Procs -> Descs] /\ alive' = alive \ {w}
      <4>1. /\ FlowTypes /\ "stdout" \in {"stdin", "stdout"}
            /\ io[w]["stdout"] = i /\ \A f \in Fds \ {"stdout"} : io[w][f] = Console
        BY <3>2, PipelineFacts DEF FlowInv, WritesTo
      <4>. HIDE DEF i, w
      <4>. QED
        BY <2>2, <3>1, <3>2, <4>1, OneEndIsGiven
    <3>4. e \in PipeSlot
      <4>1. /\ pipes[i] \in PipeSlot /\ "stdout" \in {"stdin", "stdout"}
            /\ e = EndGiven(pipes[i], "stdout")
        BY <1>1, <2>2
      <4>. HIDE DEF e, i, w
      <4>. QED
        BY <3>2, <4>1, EndGivenIs
    <3>. HIDE DEF e
    <3>5. pipes' \in [PipeIds -> PipeSlot]
      BY <1>1, <2>2, <3>3, <3>4
    <3>6. foreground' \in Int /\ foreground' <= created'
      BY <1>1, <2>1, <3>1, PipelineFacts DEF FlowInv, CrewInv
    <3>7. FlowTypes'
      BY <2>1, <3>3, <3>5, <3>6 DEF FlowInv, FlowTypes, TaskShape
    <3>8. Stopped'
      <4>1. created >= 2 * (MaxPipelines - 1)
        BY <2>1, <3>2 DEF Trouble
      <4>. HIDE DEF i, w
      <4>. QED
        BY <1>1, <2>1, <4>1, PipelineFacts DEF Stopped
    <3>9. io'[Shell] = io[Shell] /\ alive' \subseteq {Shell}
      <4>1. Shell \in Procs \ {w}
        BY <2>2, PipelineFacts
      <4>. HIDE DEF i, w
      <4>. QED
        BY <2>2, <3>3, <4>1
    <3>. QED
      BY <1>0, <2>1, <2>3, <2>4, <3>7, <3>8, <3>9, ComesHome
  <2>6. CASE w \notin alive
    <3>1. UNCHANGED <<ioVars, foreground>>
      BY <1>3, <2>6 DEF NoReader
    <3>2. FlowTypes'
      BY <1>1, <2>1, <3>1 DEF FlowInv, FlowTypes, TaskShape, ioVars
    <3>3. Stopped' \/ \A j \in PipeIds : ~ pipes'[j].active
      <4>1. CASE Trouble
        BY <1>1, <2>1, <4>1, PipelineFacts DEF Stopped, Trouble
      <4>2. CASE ~ pipes[i].active
        BY <2>2, <3>1, <4>2 DEF OfTheWriter, NoPipeBut, ioVars
      <4>. QED
        BY <2>1, <4>1, <4>2
    <3>4. io'[Shell] = io[Shell] /\ alive' \subseteq {Shell}
      BY <2>2, <2>6, <3>1 DEF ioVars
    <3>. QED
      BY <1>0, <2>1, <2>3, <2>4, <3>2, <3>3, <3>4, ComesHome
  <2>. QED
    BY <2>5, <2>6
<1>. QED
  BY <1>2, <1>3

\* The shell moves on, and nothing else does.
LEMMA ShellKeepsFlow ==
    ASSUME PipelineAssumption, FlowInv,
           Prompt \/ WaitForWriter \/ WaitForReader \/ RestoreForeground
    PROVE  FlowInv'
<1>0. CrewInv'
  BY CrewStep DEF FlowInv, Next, pipes_cmd
<1>1. /\ UNCHANGED <<pipes, io, alive, task, got, created>>
      /\ foreground' \in {foreground, Shell}
  BY DEF Prompt, WaitForWriter, WaitForReader, Waited, RestoreForeground, ioVars
<1>2. FlowTypes'
  <2>1. foreground' \in Int /\ foreground' <= created'
    BY <1>1, PipelineFacts DEF FlowInv, FlowTypes, CrewInv
  <2>. QED
    BY <1>1, <2>1 DEF FlowInv, FlowTypes, TaskShape
<1>3. created' >= created
  BY <1>1, PipelineFacts DEF FlowInv, CrewInv
<1>4. CASE Prompt
  <2>1. shell.pc = "prompt" /\ shell'.pc = "typing"
    BY <1>4 DEF Prompt, FlowInv, CrewInv, ShellRecord
  <2>2. alive' \subseteq {Shell}
    BY <1>1, <2>1 DEF FlowInv, CrewInv, Crew
  <2>3. Stopped' \/ \A i \in PipeIds : ~ pipes'[i].active
    BY <1>1, <2>1 DEF FlowInv, AtHome, Stopped
  <2>. QED
    BY <1>0, <1>1, <1>2, <1>3, <2>1, <2>2, <2>3, ComesHome
<1>5. CASE RestoreForeground
  <2>1. shell.pc = "restore" /\ shell'.pc = "prompt"
    BY <1>5 DEF RestoreForeground, FlowInv, CrewInv, ShellRecord
  <2>2. alive = {Shell}
    BY <2>1 DEF FlowInv, CrewInv, Crew
  <2>3. shell.reader \notin alive
    BY <2>1, <2>2, PipelineFacts DEF FlowInv, CrewInv, Awaiting
  <2>4. \A i \in PipeIds : ~ pipes[i].active
    BY <2>1, <2>3 DEF FlowInv, Flowing, Awaiting, OfTheWriter, OfTheReader, NoPipeBut
  <2>. QED
    BY <1>0, <1>1, <1>2, <1>3, <2>1, <2>2, <2>4, ComesHome
<1>6. CASE WaitForWriter \/ WaitForReader
  <2>1. /\ shell.pc \in Awaiting /\ foreground' = foreground
        /\ \/ shell' = [shell EXCEPT !.pc = "wait_reader"]
           \/ shell' = [shell EXCEPT !.pc = "restore"]
    BY <1>6 DEF WaitForWriter, WaitForReader, Waited, Awaiting
  <2>2. /\ shell'.pc \in Awaiting /\ shell'.pipe = shell.pipe
        /\ shell'.writer = shell.writer /\ shell'.reader = shell.reader
    BY <2>1 DEF FlowInv, CrewInv, ShellRecord, Awaiting
  <2>3. Flowing'
    BY <1>1, <2>1, <2>2
       DEF FlowInv, Flowing, OfTheWriter, OfTheReader, NoPipeBut, WritesTo, ReadsFrom
  <2>4. AtHome' /\ JustOpened' /\ HalfOpen'
    BY <2>2 DEF AtHome, JustOpened, HalfOpen, Awaiting
  <2>5. /\ NoDescriptor(Shell)' /\ (\A q \in Users : q > created => got[q] = {})'
        /\ (foreground \in alive \ {Shell} => foreground = shell.writer)'
    BY <1>1, <2>1, <2>2 DEF FlowInv, NoDescriptor, Shell
  <2>. QED
    BY <1>0, <1>2, <2>3, <2>4, <2>5 DEF FlowInv
<1>. QED
  BY <1>4, <1>5, <1>6

(* FlowInv is inductive.                                                   *)
LEMMA FlowStep ==
    ASSUME PipelineAssumption, ReadersRead, FlowInv, [Next]_pipelineVars
    PROVE  FlowInv'
<1>1. CASE handle_ctrl_c
  <2>1. /\ foreground \in Users /\ terminate_process(foreground)
        /\ UNCHANGED <<shell, created, task, got>> /\ foreground' \in {foreground, Nobody}
        /\ foreground \in alive
    BY <1>1 DEF handle_ctrl_c, terminate_program, terminate_process
  <2>2. foreground = shell.writer
    BY <2>1, PipelineFacts DEF FlowInv
  <2>3. PICK p \in Users : p = foreground
    BY <2>1
  <2>. QED
    BY <2>1, <2>2, <2>3, WriterEnds
<1>2. CASE UNCHANGED pipelineVars
  <2>1. CrewInv'
    BY CrewStep DEF FlowInv
  <2>2. /\ FlowTypes' /\ NoDescriptor(Shell)' /\ AtHome' /\ JustOpened'
        /\ (\A q \in Users : q > created => got[q] = {})'
        /\ (foreground \in alive \ {Shell} => foreground = shell.writer)'
    BY <1>2 DEF pipelineVars, ioVars, FlowInv, FlowTypes, TaskShape, NoDescriptor, Shell,
                AtHome, Stopped, JustOpened, NoPipeBut
  <2>3. HalfOpen' /\ Flowing'
    BY <1>2 DEF pipelineVars, ioVars, FlowInv, HalfOpen, Flowing, OfTheWriter,
                OfTheReader, NoPipeBut, WritesTo, ReadsFrom
  <2>. QED
    BY <2>1, <2>2, <2>3 DEF FlowInv
<1>. QED
  BY <1>1, <1>2, OpenKeepsFlow, WriterIsCreated, ReaderIsCreated, RefusalKeepsFlow,
     ShellKeepsFlow, ProgramKeepsFlow
     DEF Next, pipes_cmd

(* No pipe is open when the shell starts.                                  *)
LEMMA FlowBegins == ASSUME PipelineAssumption, Init PROVE FlowInv
<1>1. CrewInv /\ shell.pc = "prompt" /\ foreground = Shell /\ created = 0
  BY CrewBegins DEF Init
<1>2. pipes \in [PipeIds -> PipeSlot] /\ \A i \in PipeIds : ~ pipes[i].active
  <2>1. FreeSlot \in PipeSlot /\ ~ FreeSlot.active
    BY DEF FreeSlot, PipeSlot
  <2>. QED
    BY <2>1 DEF Init, IoInit
<1>3. io \in [Procs -> Descs] /\ NoDescriptor(Shell)
  BY PipelineFacts DEF Init, IoInit, init_process_io_defaults, Descs, NoDescriptor
<1>4. TaskShape
  BY DEF Init, TaskShape
<1>5. got \in [Users -> SUBSET Users] /\ \A q \in Users : got[q] = {}
  BY DEF Init
<1>6. FlowTypes
  BY <1>1, <1>2, <1>3, <1>4, <1>5, PipelineFacts DEF FlowTypes
<1>7. AtHome /\ JustOpened /\ HalfOpen /\ Flowing
  BY <1>1, <1>2 DEF AtHome, JustOpened, HalfOpen, Flowing, Awaiting
<1>. QED
  BY <1>1, <1>3, <1>5, <1>6, <1>7 DEF FlowInv

(* The reader of a pipeline gets bytes of its writer only, never of an      *)
(* earlier pipeline of that name, if whoever stands at the end of a         *)
(* pipeline reads all there is: as many pipelines as there are, up to the   *)
(* first in which a creation is refused.                                    *)
THEOREM ReadersGetTheirOwn == ASSUME ReadersRead PROVE Spec => []OwnBytesOnly
<1>1. Init => FlowInv
  BY PipelineAssumption, FlowBegins
<1>2. FlowInv /\ [Next]_pipelineVars => FlowInv'
  BY PipelineAssumption, FlowStep
<1>3. FlowInv => OwnBytesOnly
  BY DEF FlowInv, Flowing, OfTheReader, OwnBytesOnly, Awaiting
<1>. QED
  BY <1>1, <1>2, <1>3, PTL DEF Spec
=============================================================================
