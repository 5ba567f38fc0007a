-------------------------- MODULE CredentialProofs --------------------------
(***************************************************************************)
(* Proofs about module Credential, for any number of commands, key indices,*)
(* failures and ticks of the clock.                                        *)
(*                                                                         *)
(* Save looks at the directory, and later creates and fills one file after *)
(* the other, so the argument is about who owns the directory in between:  *)
(* the command whose O_EXCL made the first file.  It is alone, what is     *)
(* before its index is its own and what is after it is not there.  Whoever *)
(* has loaded a key set has loaded this directory when it was whole, and a *)
(* whole directory is never written again.                                 *)
(***************************************************************************)
EXTENDS Credential, TLAPS, WellFoundedInduction

\* The steps of Enroll, after the keys are on disk.
Enrolling == {"apply", "registerKeys", "verifyStart", "code", "verifyCheck",
              "conformanceStart", "conformanceSubmit"}

Ops == [applied : BOOLEAN, keys : Keysets \cup {None}, code : Codes \cup {None},
        verified : BOOLEAN, runs : SUBSET Tools, passed : BOOLEAN]

Typed ==
    /\ seeds \in Seeds
    /\ pc \in [Tools -> {"idle", "save", "create", "fill"} \cup Enrolling]
    /\ ks \in [Tools -> Keysets \cup {None}]
    /\ at \in [Tools -> Index]
    /\ op \in Ops
    /\ signer \in Signers \cup {None}
    /\ issued \in Nat
    /\ now \in Nat

\* The command has made the directory's first file.
Writing(t) == pc[t] = "fill" \/ (pc[t] = "create" /\ at[t] # 0)

\* What the writer finds: its own keys before its index, nothing after it.
Written(t) ==
    /\ \A i \in Index : i < at[t] => seeds[i] = ks[t][i]
    /\ \A i \in Index : i > at[t] => seeds[i] = Absent
    /\ seeds[at[t]] = IF pc[t] = "fill" THEN Torn ELSE Absent

ToolOK(t) ==
    /\ pc[t] # "idle" => ks[t] # None
    /\ ks[t] # None => Whole(ks[t])
    /\ pc[t] \notin {"create", "fill"} => at[t] = 0
    /\ Writing(t) => Written(t)
    /\ pc[t] = "create" /\ at[t] = 0 => seeds = Empty \/ seeds[0] # Absent
    /\ pc[t] \in Enrolling => ks[t] = seeds /\ Loadable(seeds)

OneWriter == \A t, u \in Tools : Writing(t) /\ Writing(u) => t = u

OneGeneration == \A i, j \in Index : seeds[i] \in Keys /\ seeds[j] \in Keys => seeds[i].gen = seeds[j].gen

\* Whoever holds the directory's keys holds all of them.
Kept ==
    /\ Loadable(seeds) => Whole(seeds)
    /\ op.keys # None => op.keys = seeds /\ Loadable(seeds)
    /\ signer # None => signer.ks = seeds /\ Loadable(seeds)

IInv ==
    /\ Typed
    /\ \A t \in Tools : ToolOK(t)
    /\ OneWriter
    /\ OneGeneration
    /\ Kept

-----------------------------------------------------------------------------
(* The operators. *)

LEMMA IndexFacts == 0 \in Index /\ Index \subseteq Nat /\ KeyIndexCount - 1 \in Index
BY KeyAssumption DEF Index

LEMMA MinInSet ==
    ASSUME NEW S \in SUBSET Nat, S # {}
    PROVE  Min(S) \in S
<1>1. PICK m \in S : \A k \in S : ~(<<k, m>> \in OpToRel(<, Nat))
  BY NatLessThanWellFounded, WFMin
<1>2. ASSUME NEW k \in S PROVE m <= k
  <2>1. k \in Nat /\ m \in Nat
    OBVIOUS
  <2>2. k < m => <<k, m>> \in OpToRel(<, Nat)
    BY <2>1 DEF OpToRel
  <2>3. ~(k < m)
    BY <1>1, <2>2, Zenon
  <2>4. QED
    BY <2>1, <2>3
<1>3. QED
  BY <1>2 DEF Min

\* GenerateKeyset draws a whole set.
LEMMA GenerateFacts ==
    ASSUME Gens \ InUse # {}
    PROVE  GenerateKeyset \in Keysets /\ Whole(GenerateKeyset) /\ GenerateKeyset # None
<1> DEFINE free == Gens \ InUse
<1>1. free \subseteq Nat /\ free # {} /\ free \subseteq Gens
  BY KeyAssumption DEF Gens
<1>2. GenerateKeyset = [i \in Index |-> [gen |-> Min(free), idx |-> i]]
  BY DEF GenerateKeyset
<1> HIDE DEF free
<1>3. Min(free) \in Gens
  BY <1>1, MinInSet
<1>4. QED
  BY <1>2, <1>3, SentinelAssumption DEF Keysets, Keys, Whole

\* A whole key set is one that LoadKeyset takes, and has one generation.
LEMMA WholeFacts ==
    ASSUME NEW k, Whole(k)
    PROVE  /\ Loadable(k)
           /\ \A i, j \in Index : k[i] \in Keys /\ k[i].gen = k[j].gen
<1>1. PICK g \in Gens : \A i \in Index : k[i] = [gen |-> g, idx |-> i]
  BY DEF Whole
<1>2. ASSUME NEW i \in Index PROVE k[i] \in Keys /\ k[i].gen = g /\ k[i].idx = i
  <2> DEFINE r == [gen |-> g, idx |-> i]
  <2>1. r \in Keys /\ r.gen = g /\ r.idx = i
    BY DEF Keys
  <2>2. k[i] = r
    BY <1>1
  <2> HIDE DEF r
  <2>3. QED
    BY <2>1, <2>2, Zenon
<1>3. ASSUME NEW i \in Index, NEW j \in Index, k[i] = k[j] PROVE i = j
  BY <1>2, <1>3, Zenon
<1>4. \A i, j \in Index : k[i].gen = k[j].gen
  BY <1>2
<1>5. Loadable(k)
  BY <1>2, <1>3, Zenon DEF Loadable
<1>6. QED
  BY <1>2, <1>4, <1>5, Zenon

\* A directory with a file missing or torn is not loaded.
LEMMA NotLoadable ==
    ASSUME NEW dir, NEW i \in Index, dir[i] \in {Absent, Torn}
    PROVE  ~Loadable(dir)
BY SentinelAssumption DEF Loadable

LEMMA MaxOfTwo ==
    ASSUME NEW a \in Nat, NEW b \in Nat, a <= b
    PROVE  Max({a, b}) = b
<1>1. \E x \in {a, b} : \A y \in {a, b} : x >= y
  OBVIOUS
<1>2. Max({a, b}) \in {a, b} /\ Max({a, b}) >= b
  BY <1>1 DEF Max
<1>3. QED
  BY <1>2

-----------------------------------------------------------------------------
(* Steps that leave the directory alone. *)

LEMMA InitInv == Init => IInv
<1> SUFFICES ASSUME Init PROVE IInv
  OBVIOUS
<1>1. Typed
  BY FoundAssumption, IndexFacts DEF Init, Typed, Ops
<1>2. \A t \in Tools : ToolOK(t) /\ ~Writing(t)
  BY DEF Init, ToolOK, Writing, Enrolling
<1>3. OneGeneration /\ Kept
  BY FoundAssumption DEF Init, OneGeneration, Kept
<1>4. QED
  BY <1>1, <1>2, <1>3 DEF IInv, OneWriter

\* A command that does not move keeps its ground.
LEMMA OtherTool ==
    ASSUME IInv, NEW u \in Tools, seeds' = seeds, pc'[u] = pc[u], ks'[u] = ks[u], at'[u] = at[u]
    PROVE  ToolOK(u)' /\ (Writing(u)' <=> Writing(u))
<1>1. Writing(u)' <=> Writing(u)
  BY DEF Writing
<1>2. Written(u)' <=> Written(u)
  BY DEF Written
<1>3. QED
  BY <1>1, <1>2 DEF IInv, ToolOK

\* A command moves on and does not become the writer.
LEMMA ToolMoves ==
    ASSUME IInv, Typed', NEW t \in Tools, seeds' = seeds,
           \A u \in Tools \ {t} : pc'[u] = pc[u] /\ ks'[u] = ks[u] /\ at'[u] = at[u],
           ToolOK(t)', Writing(t)' => Writing(t), Kept'
    PROVE  IInv'
<1>1. \A u \in Tools \ {t} : ToolOK(u)' /\ (Writing(u)' <=> Writing(u))
  BY OtherTool
<1>2. OneWriter'
  BY <1>1 DEF IInv, OneWriter
<1>3. OneGeneration'
  BY DEF IInv, OneGeneration
<1>4. QED
  BY <1>1, <1>2, <1>3 DEF IInv

LEMMA ExitFacts ==
    ASSUME Typed, NEW t \in Tools, Exit(t)
    PROVE  /\ pc' \in [Tools -> {"idle", "save", "create", "fill"} \cup Enrolling]
           /\ ks' \in [Tools -> Keysets \cup {None}]
           /\ at' \in [Tools -> Index]
           /\ pc'[t] = "idle" /\ ks'[t] = None /\ at'[t] = 0
           /\ \A u \in Tools \ {t} : pc'[u] = pc[u] /\ ks'[u] = ks[u] /\ at'[u] = at[u]
BY IndexFacts DEF Typed, Exit

\* A command that ends holds nothing.
LEMMA ExitTool ==
    ASSUME Typed, NEW t \in Tools, Exit(t)
    PROVE  ToolOK(t)' /\ ~Writing(t)'
BY ExitFacts DEF ToolOK, Writing, Enrolling

LEMMA ExitInv ==
    ASSUME IInv, NEW t \in Tools, Exit(t), UNCHANGED <<seeds, op, daemon>>
    PROVE  IInv'
<1>1. Typed'
  BY ExitFacts DEF IInv, Typed, daemon
<1>2. Kept'
  BY DEF IInv, Kept, daemon
<1>3. QED
  BY <1>1, <1>2, ExitFacts, ExitTool, ToolMoves DEF IInv

LEMMA GotoFacts ==
    ASSUME Typed, NEW t \in Tools, NEW label \in {"save", "create", "fill"} \cup Enrolling,
           Goto(t, label), UNCHANGED <<ks, at>>
    PROVE  /\ pc' \in [Tools -> {"idle", "save", "create", "fill"} \cup Enrolling]
           /\ pc'[t] = label
           /\ \A u \in Tools \ {t} : pc'[u] = pc[u] /\ ks'[u] = ks[u] /\ at'[u] = at[u]
BY DEF Typed, Goto

LEMMA GenerateInv ==
    ASSUME IInv, NEW t \in Tools, Generate(t)
    PROVE  IInv'
<1> USE DEF coordinator, daemon
<1>1. /\ pc[t] = "idle" /\ pc' = [pc EXCEPT ![t] = "save"] /\ ks' = [ks EXCEPT ![t] = GenerateKeyset]
      /\ UNCHANGED <<seeds, at, op, signer, issued, now>>
      /\ GenerateKeyset \in Keysets /\ Whole(GenerateKeyset) /\ GenerateKeyset # None
  BY GenerateFacts DEF Generate, Goto
<1>2. /\ pc'[t] = "save" /\ ks'[t] = GenerateKeyset
      /\ \A u \in Tools \ {t} : pc'[u] = pc[u] /\ ks'[u] = ks[u] /\ at'[u] = at[u]
  BY <1>1 DEF IInv, Typed
<1>3. Typed'
  BY <1>1 DEF IInv, Typed
<1>4. ToolOK(t)
  BY DEF IInv
<1>5. ToolOK(t)' /\ ~Writing(t)'
  BY <1>1, <1>2, <1>4 DEF ToolOK, Writing, Enrolling
<1>6. Kept'
  BY <1>1 DEF IInv, Kept
<1>7. QED
  BY <1>1, <1>2, <1>3, <1>5, <1>6, ToolMoves

LEMMA LoadInv ==
    ASSUME IInv, NEW t \in Tools, Load(t)
    PROVE  IInv'
<1> USE DEF coordinator, daemon
<1>1. /\ pc[t] = "idle" /\ pc' = [pc EXCEPT ![t] = "apply"] /\ ks' = [ks EXCEPT ![t] = seeds]
      /\ UNCHANGED <<seeds, at, op, signer, issued, now>>
      /\ Loadable(seeds)
  BY DEF Load, Goto
<1>2. seeds \in Keysets /\ seeds # None /\ Whole(seeds)
  BY <1>1, SentinelAssumption DEF Loadable, Keysets, IInv, Typed, Seeds, Kept
<1>3. /\ pc'[t] = "apply" /\ ks'[t] = seeds
      /\ \A u \in Tools \ {t} : pc'[u] = pc[u] /\ ks'[u] = ks[u] /\ at'[u] = at[u]
  BY <1>1 DEF IInv, Typed
<1>4. Typed'
  BY <1>1, <1>2 DEF IInv, Typed, Enrolling
<1>5. ToolOK(t)
  BY DEF IInv
<1>6. ToolOK(t)' /\ ~Writing(t)'
  BY <1>1, <1>2, <1>3, <1>5 DEF ToolOK, Writing
<1>7. Kept'
  BY <1>1 DEF IInv, Kept
<1>8. QED
  BY <1>1, <1>3, <1>4, <1>6, <1>7, ToolMoves

\* A command past Save goes on to another step of Enroll, and what the coordinator
\* holds is what it held or the keys of the command.
LEMMA EnrollingMoves ==
    ASSUME IInv, NEW t \in Tools, pc[t] \in Enrolling, NEW label \in Enrolling,
           \/ Goto(t, label) /\ UNCHANGED <<ks, at>>
           \/ Exit(t),
           op' \in Ops, op'.keys = op.keys \/ op'.keys = ks[t], UNCHANGED <<seeds, daemon>>
    PROVE  IInv'
<1> USE DEF daemon
<1>1. ToolOK(t)
  BY DEF IInv
<1>2. Kept'
  BY <1>1 DEF IInv, Kept, ToolOK
<1>3. CASE Goto(t, label) /\ UNCHANGED <<ks, at>>
  <2>1. Typed'
    BY <1>3, GotoFacts DEF IInv, Typed
  <2>2. ToolOK(t)' /\ ~Writing(t)'
    BY <1>1, <1>3, GotoFacts DEF IInv, ToolOK, Writing, Enrolling
  <2>3. QED
    BY <1>2, <1>3, <2>1, <2>2, GotoFacts, ToolMoves DEF IInv
<1>4. CASE Exit(t)
  <2>1. Typed'
    BY <1>4, ExitFacts DEF IInv, Typed
  <2>2. QED
    BY <1>2, <1>4, <2>1, ExitFacts, ExitTool, ToolMoves DEF IInv
<1>5. QED
  BY <1>3, <1>4

\* The calls of Enroll: what each does to the coordinator's record.
LEMMA CallInv ==
    ASSUME IInv, NEW t \in Tools, NEW heard \in BOOLEAN, Call(t, heard)
    PROVE  IInv'
<1>1. op \in Ops
  BY DEF IInv, Typed
<1>2. ASSUME NEW ok, NEW label \in Enrolling, pc[t] \in Enrolling, Returns(t, heard, ok, label),
             op' \in Ops, op'.keys = op.keys \/ op'.keys = ks[t]
      PROVE  IInv'
  BY <1>2, EnrollingMoves DEF Returns
<1>3. CASE Apply(t, heard)
  <2>1. op' \in Ops /\ op'.keys = op.keys
    BY <1>1, <1>3 DEF Apply, Ops
  <2>2. QED
    BY <1>2, <1>3, <2>1 DEF Apply, Enrolling
<1>4. CASE RegisterKeys(t, heard)
  <2>1. ks[t] \in Keysets \cup {None}
    BY DEF IInv, Typed
  <2>2. op' \in Ops /\ op'.keys = ks[t]
    BY <1>1, <1>4, <2>1 DEF RegisterKeys, Ops
  <2>3. QED
    BY <1>2, <1>4, <2>2 DEF RegisterKeys, Enrolling
<1>5. CASE VerifyStart(t, heard)
  <2> DEFINE free == Codes \ CodesInUse
  <2>1. free # {} /\ free \subseteq Nat /\ free \subseteq Codes /\ op' = [op EXCEPT !.code = Min(free)]
    BY <1>5, KeyAssumption DEF VerifyStart, Codes
  <2> HIDE DEF free
  <2>2. Min(free) \in Codes
    BY <2>1, MinInSet
  <2>3. op' \in Ops /\ op'.keys = op.keys
    BY <1>1, <2>1, <2>2 DEF Ops
  <2>4. QED
    BY <1>2, <1>5, <2>3 DEF VerifyStart, Enrolling
<1>6. CASE VerifyCheck(t, heard)
  <2>1. op' \in Ops /\ op'.keys = op.keys
    BY <1>1, <1>6 DEF VerifyCheck, Ops
  <2>2. QED
    BY <1>2, <1>6, <2>1 DEF VerifyCheck, Enrolling
<1>7. CASE ConformanceStart(t, heard)
  <2>1. op' \in Ops /\ op'.keys = op.keys
    BY <1>1, <1>7 DEF ConformanceStart, Ops
  <2>2. QED
    BY <1>2, <1>7, <2>1 DEF ConformanceStart, Enrolling
<1>8. CASE ConformanceSubmit(t, heard)
  <2> DEFINE passed == t \in op.runs /\ Grade(AnswerChallenges(t))
  <2>1. op' = [op EXCEPT !.runs = op.runs \ {t}, !.passed = op.passed \/ passed]
    BY <1>8 DEF ConformanceSubmit
  <2>2. (op.passed \/ passed) \in BOOLEAN /\ op.runs \ {t} \in SUBSET Tools
    BY <1>1 DEF Ops
  <2> HIDE DEF passed
  <2>3. op' \in Ops /\ op'.keys = op.keys
    BY <1>1, <2>1, <2>2 DEF Ops
  <2>4. pc[t] \in Enrolling /\ Exit(t) /\ UNCHANGED <<seeds, daemon>>
    BY <1>8 DEF ConformanceSubmit, Returns, Enrolling
  <2>5. "apply" \in Enrolling
    BY DEF Enrolling
  <2>6. QED
    BY <2>3, <2>4, <2>5, EnrollingMoves
<1>9. QED
  BY <1>3, <1>4, <1>5, <1>6, <1>7, <1>8 DEF Call

-----------------------------------------------------------------------------
(* Save. *)

LEMMA SaveCheckInv ==
    ASSUME IInv, NEW t \in Tools, SaveCheck(t)
    PROVE  IInv'
<1> USE DEF coordinator, daemon
<1>1. pc[t] = "save" /\ ToolOK(t) /\ UNCHANGED <<seeds, op, signer, issued, now>>
  BY DEF SaveCheck, IInv
<1>2. CASE seeds = Empty /\ Goto(t, "create") /\ UNCHANGED <<ks, at>>
  <2>1. Typed'
    BY <1>1, <1>2, GotoFacts DEF IInv, Typed
  <2>2. ToolOK(t)' /\ ~Writing(t)'
    BY <1>1, <1>2, GotoFacts DEF IInv, ToolOK, Writing, Enrolling, Empty
  <2>3. Kept'
    BY <1>1 DEF IInv, Kept
  <2>4. QED
    BY <1>1, <1>2, <2>1, <2>2, <2>3, GotoFacts, ToolMoves DEF IInv
<1>3. CASE Exit(t)
  BY <1>1, <1>3, ExitInv
<1>4. QED
  BY <1>2, <1>3 DEF SaveCheck

\* A directory that is written to is not whole: nobody has loaded it.
LEMMA BrokenUnused ==
    ASSUME IInv, ~Loadable(seeds)
    PROVE  /\ \A t \in Tools : pc[t] \notin Enrolling
           /\ op.keys = None /\ signer = None
BY DEF IInv, ToolOK, Kept

\* The first file is there as soon as there is a writer.
LEMMA WriterFirst ==
    ASSUME IInv, NEW t \in Tools, Writing(t)
    PROVE  seeds[0] # Absent
<1>1. Written(t) /\ at[t] \in Index /\ ks[t] # None /\ ks[t] \in Keysets
  BY DEF IInv, ToolOK, Typed, Writing
<1>2. CASE at[t] = 0
  BY <1>1, <1>2, SentinelAssumption DEF Written, Writing
<1>3. CASE at[t] # 0
  <2>1. 0 < at[t] /\ 0 \in Index
    <3>1. at[t] \in Nat
      BY <1>1, IndexFacts
    <3>2. QED
      BY <1>3, <3>1, IndexFacts
  <2>2. seeds[0] = ks[t][0] /\ ks[t][0] \in Keys
    BY <1>1, <2>1 DEF Written, Keysets
  <2>3. QED
    BY <2>2, SentinelAssumption
<1>4. QED
  BY <1>2, <1>3

LEMMA SaveCreateInv ==
    ASSUME IInv, NEW t \in Tools, SaveCreate(t)
    PROVE  IInv'
<1> USE DEF coordinator, daemon
<1>1. pc[t] = "create" /\ ToolOK(t) /\ at[t] \in Index /\ UNCHANGED <<op, signer, issued, now>>
  BY DEF SaveCreate, IInv, Typed
<1>2. CASE Exit(t) /\ UNCHANGED seeds
  BY <1>1, <1>2, ExitInv
<1>3. CASE /\ seeds[at[t]] = Absent /\ seeds' = [seeds EXCEPT ![at[t]] = Torn]
           /\ Goto(t, "fill") /\ UNCHANGED <<ks, at>>
  <2>1. /\ seeds'[at[t]] = Torn /\ seeds' \in Seeds
        /\ \A i \in Index : i # at[t] => seeds'[i] = seeds[i]
    BY <1>1, <1>3 DEF IInv, Typed, Seeds
  <2>2. ~Loadable(seeds) /\ ~Loadable(seeds')
    BY <1>1, <1>3, <2>1, NotLoadable
  <2>3. Typed'
    BY <1>1, <1>3, <2>1, GotoFacts DEF IInv, Typed
  <2>4. /\ pc'[t] = "fill" /\ ks'[t] = ks[t] /\ at'[t] = at[t]
        /\ \A u \in Tools \ {t} : pc'[u] = pc[u] /\ ks'[u] = ks[u] /\ at'[u] = at[u]
    BY <1>3, GotoFacts DEF IInv
  <2>5. \A u \in Tools : Writing(u) => u = t
    <3> SUFFICES ASSUME NEW u \in Tools, Writing(u), u # t PROVE FALSE
      OBVIOUS
    <3>1. ~Writing(t)
      BY DEF IInv, OneWriter
    <3>2. at[t] = 0
      BY <1>1, <3>1 DEF Writing
    <3>3. QED
      BY <1>3, <3>2, WriterFirst
  <2>6. Written(t)'
    <3>1. \A i \in Index : i < at[t] => seeds[i] = ks[t][i]
      <4>1. CASE at[t] = 0
        BY <4>1, IndexFacts
      <4>2. CASE at[t] # 0
        BY <1>1, <4>2 DEF ToolOK, Writing, Written
      <4>3. QED
        BY <4>1, <4>2
    <3>2. \A i \in Index : i > at[t] => seeds[i] = Absent
      <4>1. CASE at[t] = 0
        BY <1>1, <1>3, <4>1, IndexFacts DEF ToolOK, Empty
      <4>2. CASE at[t] # 0
        BY <1>1, <4>2 DEF ToolOK, Writing, Written
      <4>3. QED
        BY <4>1, <4>2
    <3>3. \A i \in Index : (i < at[t] \/ i > at[t]) => i # at[t]
      BY <1>1, IndexFacts
    <3>4. QED
      BY <2>1, <2>4, <3>1, <3>2, <3>3 DEF Written
  <2>7. ToolOK(t)'
    BY <1>1, <2>4, <2>6 DEF ToolOK, Enrolling, Writing
  <2>8. ASSUME NEW u \in Tools, u # t PROVE ToolOK(u)' /\ ~Writing(u)'
    <3>1. ToolOK(u) /\ ~Writing(u) /\ pc[u] \notin Enrolling
      BY <2>2, <2>5, <2>8, BrokenUnused DEF IInv
    <3>2. ~Writing(u)'
      BY <2>4, <2>8, <3>1 DEF Writing
    <3>3. seeds'[0] # Absent
      <4>1. CASE at[t] = 0
        BY <2>1, <4>1, SentinelAssumption
      <4>2. CASE at[t] # 0
        BY <1>1, <2>1, <4>2, WriterFirst, IndexFacts DEF Writing
      <4>3. QED
        BY <4>1, <4>2
    <3>4. QED
      BY <2>4, <2>8, <3>1, <3>2, <3>3 DEF ToolOK
  <2>9. OneWriter'
    BY <2>8 DEF OneWriter
  <2>10. OneGeneration'
    BY <2>1, SentinelAssumption DEF IInv, OneGeneration
  <2>11. Kept'
    BY <1>1, <2>2, BrokenUnused DEF Kept
  <2>12. QED
    BY <2>3, <2>7, <2>8, <2>9, <2>10, <2>11 DEF IInv
<1>4. QED
  BY <1>2, <1>3 DEF SaveCreate

LEMMA SaveFillInv ==
    ASSUME IInv, NEW t \in Tools, SaveFill(t)
    PROVE  IInv'
<1> USE DEF coordinator, daemon
<1>1. /\ pc[t] = "fill" /\ ToolOK(t) /\ at[t] \in Index /\ UNCHANGED <<op, signer, issued, now>>
      /\ seeds' = [seeds EXCEPT ![at[t]] = ks[t][at[t]]]
      /\ Writing(t) /\ Written(t) /\ ks[t] \in Keysets /\ ks[t] # None /\ Whole(ks[t])
  BY DEF SaveFill, IInv, Typed, ToolOK, Writing
<1>2. /\ seeds[at[t]] = Torn /\ at[t] \in Nat
      /\ \A i \in Index : i < at[t] => seeds[i] = ks[t][i]
      /\ \A i \in Index : i > at[t] => seeds[i] = Absent
  BY <1>1, IndexFacts DEF Written
<1>3. /\ seeds' \in Seeds
      /\ \A i \in Index : i # at[t] => seeds'[i] = seeds[i]
      /\ seeds'[at[t]] = ks[t][at[t]]
  BY <1>1 DEF IInv, Typed, Seeds, Keysets
<1>4. /\ \A i \in Index : i <= at[t] => seeds'[i] = ks[t][i]
      /\ \A i \in Index : i > at[t] => seeds'[i] = Absent
  <2>1. \A i \in Index : i \in Nat
    BY IndexFacts
  <2>2. QED
    BY <1>1, <1>2, <1>3, <2>1
<1>5. ~Loadable(seeds)
  BY <1>1, <1>2, NotLoadable
<1>6. ASSUME NEW u \in Tools, u # t
      PROVE  /\ ToolOK(u) /\ ~Writing(u) /\ pc[u] \notin Enrolling
             /\ seeds'[0] # Absent
  <2>1. ToolOK(u) /\ ~Writing(u) /\ pc[u] \notin Enrolling
    BY <1>1, <1>5, <1>6, BrokenUnused DEF IInv, OneWriter
  <2>2. seeds'[0] = ks[t][0] /\ ks[t][0] \in Keys
    BY <1>1, <1>2, <1>4, IndexFacts DEF Keysets
  <2>3. QED
    BY <2>1, <2>2, SentinelAssumption
<1>7. OneGeneration'
  <2> SUFFICES ASSUME NEW i \in Index, NEW j \in Index, seeds'[i] \in Keys, seeds'[j] \in Keys
               PROVE  seeds'[i].gen = seeds'[j].gen
    BY DEF OneGeneration
  <2>1. seeds'[i] = ks[t][i] /\ seeds'[j] = ks[t][j]
    BY <1>2, <1>4, IndexFacts, SentinelAssumption
  <2>2. ks[t][i].gen = ks[t][j].gen
    BY <1>1, WholeFacts
  <2>3. QED
    BY <2>1, <2>2
<1>8. Loadable(seeds') => seeds' = ks[t]
  <2> SUFFICES ASSUME Loadable(seeds') PROVE seeds' = ks[t]
    OBVIOUS
  <2>1. \A i \in Index : seeds'[i] = ks[t][i]
    BY <1>2, <1>4, IndexFacts, SentinelAssumption DEF Loadable
  <2>2. QED
    BY <1>1, <1>3, <2>1 DEF Seeds, Keysets
<1>9. Kept'
  <2>1. op.keys = None /\ signer = None
    BY <1>5, BrokenUnused
  <2>2. (Loadable(seeds) => Whole(seeds))'
    BY <1>1, <1>8
  <2>3. QED
    BY <1>1, <2>1, <2>2 DEF Kept
<1>10. ASSUME Typed', ToolOK(t)',
              \A u \in Tools \ {t} : pc'[u] = pc[u] /\ ks'[u] = ks[u] /\ at'[u] = at[u]
       PROVE  IInv'
  <2>1. ASSUME NEW u \in Tools, u # t PROVE ToolOK(u)' /\ ~Writing(u)'
    <3>1. ~Writing(u)'
      BY <1>6, <1>10, <2>1 DEF Writing
    <3>2. QED
      BY <1>6, <1>10, <2>1, <3>1 DEF ToolOK
  <2>2. OneWriter'
    BY <2>1 DEF OneWriter
  <2>3. QED
    BY <1>7, <1>9, <1>10, <2>1, <2>2 DEF IInv
<1>11. CASE /\ at[t] + 1 \in Index /\ at' = [at EXCEPT ![t] = at[t] + 1]
            /\ Goto(t, "create") /\ UNCHANGED ks
  <2>1. /\ pc'[t] = "create" /\ at'[t] = at[t] + 1 /\ ks'[t] = ks[t]
        /\ \A u \in Tools \ {t} : pc'[u] = pc[u] /\ ks'[u] = ks[u] /\ at'[u] = at[u]
    BY <1>11 DEF Goto, IInv, Typed
  <2>2. Typed'
    BY <1>1, <1>3, <1>11 DEF IInv, Typed, Goto
  <2>3. Written(t)'
    <3>1. \A i \in Index : i \in Nat /\ (i < at[t] + 1 => i <= at[t]) /\ (i > at[t] + 1 => i > at[t])
      BY <1>2, IndexFacts
    <3>2. seeds'[at[t] + 1] = Absent
      BY <1>2, <1>4, <1>11
    <3>3. QED
      BY <1>4, <2>1, <3>1, <3>2 DEF Written
  <2>4. ToolOK(t)'
    BY <1>1, <1>2, <2>1, <2>3 DEF ToolOK, Enrolling
  <2>5. QED
    BY <1>10, <2>1, <2>2, <2>4
<1>12. CASE /\ at[t] + 1 \notin Index /\ at' = [at EXCEPT ![t] = 0]
            /\ Goto(t, "apply") /\ UNCHANGED ks
  <2>1. /\ pc'[t] = "apply" /\ at'[t] = 0 /\ ks'[t] = ks[t]
        /\ \A u \in Tools \ {t} : pc'[u] = pc[u] /\ ks'[u] = ks[u] /\ at'[u] = at[u]
    BY <1>12, IndexFacts DEF Goto, IInv, Typed
  <2>2. Typed'
    BY <1>1, <1>3, <1>12, IndexFacts DEF IInv, Typed, Goto, Enrolling
  <2>3. \A i \in Index : i <= at[t]
    BY <1>1, <1>12, KeyAssumption DEF Index
  <2>4. seeds' = ks[t]
    BY <1>1, <1>3, <1>4, <2>3 DEF Seeds, Keysets
  <2>5. ToolOK(t)'
    BY <1>1, <2>1, <2>4, WholeFacts DEF ToolOK, Writing
  <2>6. QED
    BY <1>10, <2>1, <2>2, <2>5
<1>13. CASE Exit(t)
  <2>1. Typed'
    BY <1>1, <1>3, <1>13, ExitFacts DEF IInv, Typed
  <2>2. QED
    BY <1>10, <1>13, <2>1, ExitFacts, ExitTool DEF IInv
<1>14. QED
  BY <1>11, <1>12, <1>13 DEF SaveFill

LEMMA RemoveInv ==
    ASSUME IInv, RemoveBroken
    PROVE  IInv'
<1> USE DEF command, coordinator, daemon
<1>1. /\ seeds' = Empty /\ ~Loadable(seeds) /\ UNCHANGED <<pc, ks, at, op, signer, issued, now>>
      /\ \A t \in Tools : pc[t] \notin {"create", "fill"}
  BY DEF RemoveBroken
<1>2. ~Loadable(Empty) /\ Empty \in Seeds
  BY NotLoadable, IndexFacts DEF Empty, Seeds
<1>3. Typed'
  BY <1>1, <1>2 DEF IInv, Typed
<1>4. \A t \in Tools : ToolOK(t)' /\ ~Writing(t)'
  BY <1>1, BrokenUnused DEF IInv, ToolOK, Writing
<1>5. OneGeneration'
  BY <1>1, SentinelAssumption DEF OneGeneration, Empty
<1>6. Kept'
  BY <1>1, <1>2, BrokenUnused DEF Kept
<1>7. QED
  BY <1>3, <1>4, <1>5, <1>6 DEF IInv, OneWriter

-----------------------------------------------------------------------------
(* The whole. *)

LEMMA CodeInv ==
    ASSUME IInv, NEW t \in Tools, Code(t)
    PROVE  IInv'
<1>1. /\ pc[t] \in Enrolling /\ Goto(t, "verifyCheck") /\ UNCHANGED <<ks, at, seeds, op, daemon>>
      /\ "verifyCheck" \in Enrolling /\ op \in Ops
  BY DEF Code, Enrolling, coordinator, IInv, Typed
<1>2. QED
  BY <1>1, EnrollingMoves

\* Steps of the mail and of cloudyd.
LEMMA DaemonInv ==
    ASSUME IInv, UNCHANGED <<seeds, pc, ks, at, op>>, issued' \in Nat, now' \in Nat,
           \/ signer' = signer
           \/ signer' = None
           \/ Loadable(seeds) /\ \E n \in Nat : signer' = [ks |-> seeds, seq |-> n]
    PROVE  IInv'
<1>1. signer' \in Signers \cup {None} /\ Kept'
  <2>1. CASE signer' = signer \/ signer' = None
    BY <2>1 DEF IInv, Typed, Kept
  <2>2. CASE Loadable(seeds) /\ \E n \in Nat : signer' = [ks |-> seeds, seq |-> n]
    <3>1. seeds \in Keysets
      BY <2>2 DEF Loadable, Keysets, IInv, Typed, Seeds
    <3>2. PICK n \in Nat : signer' = [ks |-> seeds, seq |-> n]
      BY <2>2
    <3>3. signer' \in Signers /\ signer'.ks = seeds
      BY <3>1, <3>2 DEF Signers
    <3>4. QED
      BY <2>2, <3>3 DEF IInv, Kept
  <2>3. QED
    BY <2>1, <2>2
<1>2. Typed'
  BY <1>1 DEF IInv, Typed
<1>3. \A t \in Tools : ToolOK(t)' /\ (Writing(t)' <=> Writing(t))
  BY OtherTool
<1>4. OneGeneration' /\ OneWriter'
  BY <1>3 DEF IInv, OneGeneration, OneWriter
<1>5. QED
  BY <1>1, <1>2, <1>3, <1>4 DEF IInv

\* The Seq under way: no signer is behind what was issued, or ahead of the clock.
SeqOK ==
    /\ issued <= now
    /\ signer # None => issued <= signer.seq /\ signer.seq <= now

\* Signing takes the next Seq, and a tick with it.
LEMMA SignFacts ==
    ASSUME IInv, SeqOK, SignNext
    PROVE  /\ signer # None /\ signer.seq \in Nat /\ signer' = [ks |-> signer.ks, seq |-> signer.seq + 1]
           /\ signer'.seq = signer.seq + 1 /\ issued' = signer.seq + 1 /\ now' = now + 1
           /\ issued <= signer.seq /\ signer.seq <= now /\ now \in Nat /\ issued \in Nat
<1>1. /\ signer \in Signers /\ signer # None /\ signer.seq \in Nat /\ issued \in Nat /\ now \in Nat
      /\ issued <= signer.seq /\ signer.seq <= now
  BY DEF SignNext, IInv, Typed, Signers, SeqOK
<1>2. issued <= signer.seq + 1 /\ signer.seq + 1 \in Nat
  BY <1>1
<1>3. issued' = signer.seq + 1
  BY <1>1, <1>2, MaxOfTwo DEF SignNext
<1>4. signer' = [ks |-> signer.ks, seq |-> signer.seq + 1]
  BY <1>1 DEF SignNext, Signers
<1>5. signer'.seq = signer.seq + 1
  BY <1>4
<1>6. QED
  BY <1>1, <1>3, <1>4, <1>5 DEF SignNext

LEMMA NextInv ==
    ASSUME IInv, SeqOK, [Next]_vars
    PROVE  IInv' /\ SeqOK'
<1> USE DEF command, coordinator, daemon
<1>1. ASSUME NEW t \in Tools, Die(t)
      PROVE  IInv' /\ SeqOK'
  BY <1>1, ExitInv DEF Die, SeqOK
<1>2. ASSUME NEW t \in Tools, Generate(t) \/ Load(t) \/ Save(t) \/ Code(t)
      PROVE  IInv' /\ SeqOK'
  <2>1. IInv'
    BY <1>2, GenerateInv, LoadInv, SaveCheckInv, SaveCreateInv, SaveFillInv, CodeInv DEF Save
  <2>2. UNCHANGED <<signer, issued, now>>
    BY <1>2 DEF Generate, Load, Save, SaveCheck, SaveCreate, SaveFill, Code
  <2>3. QED
    BY <2>1, <2>2 DEF SeqOK
<1>3. ASSUME NEW t \in Tools, NEW heard \in BOOLEAN, Call(t, heard)
      PROVE  IInv' /\ SeqOK'
  <2>1. UNCHANGED <<signer, issued, now>>
    BY <1>3 DEF Call, Apply, RegisterKeys, VerifyStart, VerifyCheck, ConformanceStart,
                ConformanceSubmit, Returns
  <2>2. QED
    BY <1>3, <2>1, CallInv DEF SeqOK
<1>4. CASE RemoveBroken
  BY <1>4, RemoveInv DEF RemoveBroken, SeqOK
<1>5. issued \in Nat /\ now \in Nat
  BY DEF IInv, Typed
<1>6. CASE Deliver
  BY <1>5, <1>6, DaemonInv DEF Deliver, SeqOK
<1>7. CASE NewTransmissionSigner
  <2>1. /\ Loadable(seeds) /\ signer' = [ks |-> seeds, seq |-> now]
        /\ UNCHANGED <<seeds, pc, ks, at, op, issued, now>>
    BY <1>7 DEF NewTransmissionSigner
  <2>2. IInv'
    BY <1>5, <2>1, DaemonInv
  <2>3. SeqOK'
    BY <1>5, <2>1 DEF SeqOK
  <2>4. QED
    BY <2>2, <2>3
<1>8. CASE SignNext
  <2>1. signer.ks = seeds /\ Loadable(seeds)
    BY <1>8, SignFacts DEF IInv, Kept
  <2>2. /\ signer' = [ks |-> seeds, seq |-> signer.seq + 1] /\ signer.seq + 1 \in Nat
        /\ issued' \in Nat /\ now' \in Nat
    BY <1>8, <2>1, SignFacts
  <2>3. IInv'
    BY <1>8, <2>1, <2>2, DaemonInv DEF SignNext
  <2>4. SeqOK'
    BY <1>8, SignFacts DEF SeqOK
  <2>5. QED
    BY <2>3, <2>4
<1>9. CASE Tick
  <2>1. now' = now + 1 /\ UNCHANGED <<seeds, pc, ks, at, op, signer, issued>>
    BY <1>9 DEF Tick
  <2>2. signer # None => signer.seq \in Nat
    BY DEF IInv, Typed, Signers
  <2>3. QED
    BY <1>5, <2>1, <2>2, DaemonInv DEF SeqOK
<1>10. CASE StopDaemon
  BY <1>5, <1>10, DaemonInv DEF StopDaemon, SeqOK
<1>11. CASE UNCHANGED vars
  BY <1>5, <1>11, DaemonInv DEF vars, SeqOK
<1>12. QED
  BY <1>1, <1>2, <1>3, <1>4, <1>6, <1>7, <1>8, <1>9, <1>10, <1>11 DEF Next

LEMMA InitSeq == Init => SeqOK
BY DEF Init, SeqOK

\* However Saves race or die, the directory never holds seeds of two key sets, and every
\* command, the coordinator and cloudyd have the whole of one.
THEOREM NeverMixed == Spec => []NoMixedKeyset
<1>1. IInv => NoMixedKeyset
  <2> SUFFICES ASSUME IInv PROVE NoMixedKeyset
    OBVIOUS
  <2>1. ASSUME NEW t \in Tools, ks[t] # None PROVE Whole(ks[t])
    BY <2>1 DEF IInv, ToolOK
  <2>2. op.keys # None => Whole(op.keys)
    BY DEF IInv, Kept
  <2>3. signer # None => Whole(signer.ks)
    BY DEF IInv, Kept
  <2>4. QED
    BY <2>1, <2>2, <2>3 DEF NoMixedKeyset, IInv, OneGeneration
<1>2. IInv /\ SeqOK /\ [Next]_vars => IInv' /\ SeqOK'
  BY NextInv
<1>3. QED
  BY <1>1, <1>2, InitInv, InitSeq, PTL DEF Spec

\* The registered keys, the directory's and the signer's are one: no crash loses the
\* seeds of public keys the coordinator has, and no other set takes their place.
THEOREM RegisteredKept == Spec => []RegisteredKeysAreKept
<1>1. IInv => RegisteredKeysAreKept
  BY DEF IInv, Kept, RegisteredKeysAreKept
<1>2. IInv /\ SeqOK /\ [Next]_vars => IInv' /\ SeqOK'
  BY NextInv
<1>3. QED
  BY <1>1, <1>2, InitInv, InitSeq, PTL DEF Spec

\* No signer issues a Seq that it or one before a restart has issued, as long as the
\* clock does not go back.
THEOREM SeqNeverRepeats == Spec => SeqAdvances
<1> DEFINE Advance == issued' # issued \/ (signer # None /\ signer' # None /\ signer' # signer)
                          => signer'.seq > issued
<1>1. ASSUME IInv, SeqOK, [Next]_vars PROVE Advance
  <2>1. CASE SignNext
    BY <1>1, <2>1, SignFacts
  <2>2. CASE issued' = issued /\ (signer' = signer \/ signer = None \/ signer' = None)
    BY <2>2
  <2> HIDE DEF Advance
  <2>3. QED
    BY <1>1, <2>1, <2>2 DEF Next, Generate, Load, Save, SaveCheck, SaveCreate, SaveFill, Code, Die,
       Call, Apply, RegisterKeys, VerifyStart, VerifyCheck, ConformanceStart, ConformanceSubmit,
       Returns, RemoveBroken, Deliver, NewTransmissionSigner, Tick, StopDaemon, vars, daemon
<1>2. IInv /\ SeqOK /\ [Next]_vars => IInv' /\ SeqOK'
  BY NextInv
<1>3. IInv /\ SeqOK /\ [Next]_vars => [Advance]_vars
  BY <1>1
<1>4. QED
  BY <1>2, <1>3, InitInv, InitSeq, PTL DEF Spec, SeqAdvances
=============================================================================
