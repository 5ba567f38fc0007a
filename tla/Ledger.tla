------------------------------- MODULE Ledger -------------------------------
(***************************************************************************)
(* internal/economy: several Ledger instances over one shared Store.       *)
(*                                                                         *)
(* Each instance derives balances, nonces and policy by folding the store, *)
(* and appends with a compare on the number of records it has applied.  An *)
(* instance holds its own mutex for a whole Post, Enact or Open, so it     *)
(* runs one call at a time; the store takes its own lock inside Append and *)
(* All, so the steps of different instances interleave between admission,  *)
(* append and catch-up.                                                    *)
(*                                                                         *)
(* MaxInt stands for math.MaxInt64; balances live in MinInt..MaxInt and    *)
(* arithmetic on them wraps.  Amounts are unsigned and reach past MaxInt.  *)
(***************************************************************************)
EXTENDS Integers, Sequences, FiniteSets

CONSTANTS
    N,              \* account identifiers are 1..N
    Directory,      \* those whose key the directory resolves and that hash to their id
    Ledgers,        \* the Ledger instances sharing the store
    Platform,       \* the platform fixed in Genesis
    Stewards,       \* the steward keys fixed in Genesis
    Threshold,      \* distinct steward signatures needed to enact
    GenesisPolicy,  \* [mode, cap] fixed in Genesis
    MaxInt,         \* math.MaxInt64
    Spends,         \* the spends callers may present, well or badly formed
    Changes,        \* the policy changes callers may present
    BypassUpTo,     \* the store may be written around the ledgers below this length
    Foreign,        \* a record of a dynamic type that is neither kind
    NoCall          \* no call in progress

Accounts == 1..N
MinInt == -MaxInt - 1
Modes == {"escrow", "credit"}

Spend ==
    [kind : {"spend"}, platform : STRING, from : Accounts, to : Accounts,
     amount : Nat, nonce : Nat, signer : Nat]

PolicyChange ==
    [kind : {"policy"}, platform : STRING, mode : STRING, cap : Nat,
     version : Nat, sigs : Seq(Nat)]

ASSUME NAssumption == N \in Nat
ASSUME DirectoryAssumption == Directory \subseteq Accounts
ASSUME MaxIntAssumption == MaxInt \in Nat \ {0}
ASSUME SpendsAssumption == Spends \subseteq Spend
ASSUME ChangesAssumption == Changes \subseteq PolicyChange
ASSUME ForeignAssumption == Foreign.kind = "foreign" /\ NoCall.kind = "none"
\* Genesis.validate: Open refuses any other genesis.
ASSUME GenesisAssumption ==
    /\ Platform # ""
    /\ Threshold \in 1..Cardinality(Stewards)
    /\ GenesisPolicy \in [mode : Modes, cap : 0..MaxInt]
ASSUME BypassAssumption == BypassUpTo \in Nat

Calls == Spends \cup Changes
Records == Calls \cup {Foreign}

VARIABLES
    store,    \* MemStore.records
    pc,       \* pc[l]: where instance l is in its current call
    call,     \* call[l]: the record being posted or enacted, NoCall when none
    st,       \* st[l]: the derived state (balances, nonces, pol, version)
    applied,  \* applied[l]: records replayed or appended by l
    target,   \* target[l]: length of the snapshot All returned to l
    past      \* history: past[i + 1] is the state the first i records fold to,
              \* up to the first record that fails admission

vars == <<store, pc, call, st, applied, target, past>>

-----------------------------------------------------------------------------
(* Derived state and the rules shared by Post, Enact and replay. *)

State ==
    [bal : [Accounts -> MinInt..MaxInt], nonce : [Accounts -> Nat],
     pol : [mode : Modes, cap : 0..MaxInt], version : Nat]

Genesis ==
    [bal |-> [a \in Accounts |-> 0], nonce |-> [a \in Accounts |-> 0],
     pol |-> GenesisPolicy, version |-> 0]

\* int64 addition and subtraction of two int64 values.
Wrap(x) ==
    IF x > MaxInt THEN x - 2 * (MaxInt + 1)
    ELSE IF x < MinInt THEN x + 2 * (MaxInt + 1)
    ELSE x

\* Spend.Verify against the key the directory holds for the payer.
SpendVerifies(s) == s.signer = s.from

\* PolicyChange.Verify: non-stewards and repeats count for nothing.
QuorumVerifies(c) ==
    Cardinality({k \in Stewards : \E i \in 1..Len(c.sigs) : c.sigs[i] = k}) >= Threshold

AdmitSpendNoOverflowGuard(g, s) ==
    /\ g.pol.mode # "escrow"
    /\ s.platform = Platform /\ s.from # s.to
    /\ s.amount > 0 /\ s.amount <= MaxInt
    /\ s.from \in Directory /\ s.to \in Directory /\ SpendVerifies(s)
    /\ s.nonce > g.nonce[s.from]
    /\ g.bal[s.from] >= MinInt + s.amount
    /\ g.bal[s.from] - s.amount >= -g.pol.cap

AdmitSpendGrossCap(g, s) ==
    /\ g.pol.mode # "escrow"
    /\ s.platform = Platform /\ s.from # s.to
    /\ s.amount > 0 /\ s.amount <= MaxInt
    /\ s.from \in Directory /\ s.to \in Directory /\ SpendVerifies(s)
    /\ s.nonce > g.nonce[s.from]
    /\ g.bal[s.from] >= MinInt + s.amount
    /\ s.amount <= g.pol.cap \/ g.bal[s.from] >= s.amount
    /\ g.bal[s.to] <= MaxInt - s.amount

AdmitSpend(g, s) ==
    /\ g.pol.mode # "escrow"
    /\ s.platform = Platform
    /\ s.from # s.to
    /\ s.amount > 0
    /\ s.amount <= MaxInt
    /\ s.from \in Directory
    /\ s.to \in Directory
    /\ SpendVerifies(s)
    /\ s.nonce > g.nonce[s.from]
    /\ g.bal[s.from] >= MinInt + s.amount
    /\ g.bal[s.from] - s.amount >= -g.pol.cap
    /\ g.bal[s.to] <= MaxInt - s.amount

ApplySpend(g, s) ==
    [g EXCEPT !.bal = [g.bal EXCEPT ![s.from] = Wrap(@ - s.amount),
                                    ![s.to] = Wrap(@ + s.amount)],
              !.nonce = [g.nonce EXCEPT ![s.from] = s.nonce]]

AdmitPolicyChangeUnvalidated(g, c) ==
    c.platform = Platform /\ c.version > g.version /\ QuorumVerifies(c)

\* Policy.validate on the new policy included.
AdmitPolicyChange(g, c) ==
    /\ c.platform = Platform
    /\ c.version > g.version
    /\ c.mode \in Modes
    /\ c.cap <= MaxInt
    /\ QuorumVerifies(c)

ApplyPolicyChange(g, c) ==
    [g EXCEPT !.pol = [mode |-> c.mode, cap |-> c.cap], !.version = c.version]

\* The exact-type switch of replay: a foreign kind is never admitted.
Admit(g, r) ==
    \/ r.kind = "spend" /\ AdmitSpend(g, r)
    \/ r.kind = "policy" /\ AdmitPolicyChange(g, r)

Apply(g, r) == IF r.kind = "spend" THEN ApplySpend(g, r) ELSE ApplyPolicyChange(g, r)

-----------------------------------------------------------------------------
(* The store. *)

\* The state of the verified history, and whether the whole store verifies.
Now == past[Len(past)]
Verified == Len(past) = Len(store) + 1

\* One record lands; the history follows as long as replay would accept it.
Land(r) ==
    /\ store' = Append(store, r)
    /\ past' = IF Verified /\ Admit(Now, r) THEN Append(past, Apply(Now, r)) ELSE past

-----------------------------------------------------------------------------
(* The calls of one instance. *)

Init ==
    /\ store = <<>>
    /\ pc = [l \in Ledgers |-> "closed"]
    /\ call = [l \in Ledgers |-> NoCall]
    /\ st = [l \in Ledgers |-> Genesis]
    /\ applied = [l \in Ledgers |-> 0]
    /\ target = [l \in Ledgers |-> 0]
    /\ past = <<Genesis>>

\* Open reads the whole store, then replays it from genesis.  An idle instance
\* may be dropped and opened anew: nothing but the store survives it.
Open(l) ==
    /\ pc[l] \in {"closed", "idle"}
    /\ pc' = [pc EXCEPT ![l] = "replay"]
    /\ call' = [call EXCEPT ![l] = NoCall]
    /\ st' = [st EXCEPT ![l] = Genesis]
    /\ applied' = [applied EXCEPT ![l] = 0]
    /\ target' = [target EXCEPT ![l] = Len(store)]
    /\ UNCHANGED <<store, past>>

\* A caller enters Post or Enact with record r and takes the instance's mutex.
Call(l, r) ==
    /\ pc[l] = "idle"
    /\ pc' = [pc EXCEPT ![l] = "admit"]
    /\ call' = [call EXCEPT ![l] = r]
    /\ UNCHANGED <<store, st, applied, target, past>>

\* Admission fails against the instance's own state: the call returns an error.
Refuse(l) ==
    /\ pc[l] = "admit"
    /\ ~Admit(st[l], call[l])
    /\ pc' = [pc EXCEPT ![l] = "idle"]
    /\ call' = [call EXCEPT ![l] = NoCall]
    /\ UNCHANGED <<store, st, applied, target, past>>

Accept(l) ==
    /\ pc[l] = "admit"
    /\ Admit(st[l], call[l])
    /\ pc' = [pc EXCEPT ![l] = "append"]
    /\ UNCHANGED <<store, call, st, applied, target, past>>

AppendUnconditional(l) ==
    /\ pc[l] = "append"
    /\ Land(call[l])
    /\ st' = [st EXCEPT ![l] = Apply(@, call[l])]
    /\ applied' = [applied EXCEPT ![l] = @ + 1]
    /\ pc' = [pc EXCEPT ![l] = "idle"]
    /\ call' = [call EXCEPT ![l] = NoCall]
    /\ UNCHANGED target

\* The conditional append succeeds, and the record is folded in locally.
AppendRecord(l) ==
    /\ pc[l] = "append"
    /\ Len(store) = applied[l]
    /\ Land(call[l])
    /\ st' = [st EXCEPT ![l] = Apply(@, call[l])]
    /\ applied' = [applied EXCEPT ![l] = @ + 1]
    /\ pc' = [pc EXCEPT ![l] = "idle"]
    /\ call' = [call EXCEPT ![l] = NoCall]
    /\ UNCHANGED target

\* ErrConflict: another writer got there first.
Conflict(l) ==
    /\ pc[l] = "append"
    /\ Len(store) # applied[l]
    /\ pc' = [pc EXCEPT ![l] = "catchup"]
    /\ UNCHANGED <<store, call, st, applied, target, past>>

ReadTailBlindly(l) ==
    /\ pc[l] = "catchup"
    /\ Len(store) >= applied[l]
    /\ target' = [target EXCEPT ![l] = Len(store)]
    /\ applied' = [applied EXCEPT ![l] = Len(store)]
    /\ pc' = [pc EXCEPT ![l] = "replay"]
    /\ UNCHANGED <<store, call, st, past>>

\* catchUp takes the store's lock again: more records may have landed.
ReadTail(l) ==
    /\ pc[l] = "catchup"
    /\ Len(store) >= applied[l]
    /\ target' = [target EXCEPT ![l] = Len(store)]
    /\ pc' = [pc EXCEPT ![l] = "replay"]
    /\ UNCHANGED <<store, call, st, applied, past>>

ReplaySpendsOnly(l) ==
    /\ pc[l] = "replay"
    /\ applied[l] < target[l]
    /\ Admit(st[l], store[applied[l] + 1])
    /\ st' = [st EXCEPT ![l] = IF store[applied[l] + 1].kind = "spend"
                               THEN ApplySpend(@, store[applied[l] + 1]) ELSE @]
    /\ applied' = [applied EXCEPT ![l] = @ + 1]
    /\ UNCHANGED <<store, pc, call, target, past>>

\* One turn of the replay loop shared by Open and catchUp.
Replay(l) ==
    /\ pc[l] = "replay"
    /\ applied[l] < target[l]
    /\ Admit(st[l], store[applied[l] + 1])
    /\ st' = [st EXCEPT ![l] = Apply(@, store[applied[l] + 1])]
    /\ applied' = [applied EXCEPT ![l] = @ + 1]
    /\ UNCHANGED <<store, pc, call, target, past>>

\* ErrTampered: Open returns no ledger; Post and Enact return the error.
ReplayRejects(l) ==
    /\ pc[l] = "replay"
    /\ applied[l] < target[l]
    /\ ~Admit(st[l], store[applied[l] + 1])
    /\ pc' = [pc EXCEPT ![l] = IF call[l] = NoCall THEN "closed" ELSE "idle"]
    /\ call' = [call EXCEPT ![l] = NoCall]
    /\ UNCHANGED <<store, st, applied, target, past>>

\* The tail is replayed: Open returns; Post and Enact admit again.
ReplayDone(l) ==
    /\ pc[l] = "replay"
    /\ applied[l] = target[l]
    /\ pc' = [pc EXCEPT ![l] = IF call[l] = NoCall THEN "idle" ELSE "admit"]
    /\ UNCHANGED <<store, call, st, applied, target, past>>

\* Someone holding the store appends to it directly, with no admission.
Bypass(r) ==
    /\ Len(store) < BypassUpTo
    /\ Land(r)
    /\ UNCHANGED <<pc, call, st, applied, target>>

Next ==
    \/ \E l \in Ledgers :
         \/ Open(l)
         \/ \E r \in Calls : Call(l, r)
         \/ Refuse(l)
         \/ Accept(l)
         \/ AppendRecord(l)
         \/ Conflict(l)
         \/ ReadTail(l)
         \/ Replay(l)
         \/ ReplayRejects(l)
         \/ ReplayDone(l)
    \/ \E r \in Records : Bypass(r)

Spec == Init /\ [][Next]_vars

-----------------------------------------------------------------------------
(* Properties. *)

\* Every variable has its type; balances and caps stay in the int64 range.
TypeOK ==
    /\ store \in Seq(Records)
    /\ pc \in [Ledgers -> {"closed", "replay", "idle", "admit", "append", "catchup"}]
    /\ call \in [Ledgers -> Calls \cup {NoCall}]
    /\ st \in [Ledgers -> State]
    /\ applied \in [Ledgers -> Nat]
    /\ target \in [Ledgers -> Nat]
    /\ past \in Seq(State)

\* "concurrent writers cannot fork history" (ledger.go, type Ledger): whatever
\* races it lost, an instance's derived state is the fold of exactly the first
\* applied records of the one store, and it never gets past a record that
\* fails admission there.
NoFork ==
    \A l \in Ledgers :
        /\ applied[l] + 1 \in 1..Len(past)
        /\ st[l] = past[applied[l] + 1]

\* The sum of the balances b, the sum the package says is always zero.
Total(b) ==
    LET sum[n \in 0..N] == IF n = 0 THEN 0 ELSE sum[n - 1] + b[n]
    IN sum[N]

\* "the sum of balances is always exactly zero" (spend.go, type Balance; Post):
\* although each side of a transfer is a wrapping int64 operation, no instance
\* ever holds balances that do not sum to zero in the integers.
ZeroSum == \A l \in Ledgers : Total(st[l].bal) = 0

\* Caps are positional (Open): a balance may sit below the cap in force, but
\* only because a policy change lowered it.  No account is ever further in
\* debt than the largest cap that was in force so far.
DebtWithinACap ==
    \A l \in Ledgers : \A a \in Accounts :
        \E i \in 1..(applied[l] + 1) : st[l].bal[a] >= -past[i].pol.cap

\* Instance l returns success from Post or Enact in this step.
Appends(l) == pc[l] = "append" /\ pc'[l] = "idle" /\ store' # store

\* "a nonce spent through one ledger is ErrReplay through every other" (Post;
\* Enact says the same of versions): a record an instance appends advances past
\* every record of the same payer, or every policy change, already stored.
NonceSpentOnce ==
    [][\A l \in Ledgers : Appends(l) =>
          \A i \in 1..Len(store) :
             /\ call[l].kind = "spend" /\ store[i].kind = "spend" /\ store[i].from = call[l].from
                   => call[l].nonce > store[i].nonce
             /\ call[l].kind = "policy" /\ store[i].kind = "policy"
                   => call[l].version > store[i].version]_vars

\* "no fork is ever writable" (doc.go): what an instance appends is admissible
\* after everything that precedes it in the store, so no interleaving of
\* instances produces a store that a later Open reports as tampered.
AppendsVerify ==
    [][\A l \in Ledgers : Appends(l) => Verified /\ Verified']_vars

\* The other direction (admitSpend: "cannot be admissible live yet unverifiable
\* at reopen"): replay reports ErrTampered only at a record that really is
\* inadmissible in the verified history.
RejectsOnlyTampering ==
    [][\A l \in Ledgers :
          (pc[l] = "replay" /\ pc'[l] # "replay" /\ applied[l] < target[l]) =>
             /\ Len(past) = applied[l] + 1
             /\ ~Admit(Now, store[applied[l] + 1])]_vars

\* The store's verified history is one mutual-credit ledger: instances,
\* interleavings and machine words implement CreditLedger.
OneLedger ==
    INSTANCE CreditLedger WITH
        bal <- Now.bal, nonce <- Now.nonce, policy <- Now.pol, version <- Now.version

ImplementsCreditLedger == OneLedger!Spec

=============================================================================
