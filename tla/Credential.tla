----------------------------- MODULE Credential -----------------------------
(***************************************************************************)
(* The operator's credential: internal/opcred's seven seed files, the      *)
(* commands that write and register them (operator-keygen, cloudy-enroll   *)
(* over internal/enroll), and the signer cloudyd puts over them.           *)
(*                                                                         *)
(* Commands are processes on one keyset directory.  Each file is created   *)
(* and then filled, each call to the coordinator is a step, and a command  *)
(* may die between any two of them, or lose a request or its answer.       *)
(* LoadKeyset is one step: a filled file stays as it is until the operator *)
(* removes the set as broken, which is not done while a command or cloudyd *)
(* reads it, so reading file by file finds no more than reading all at the *)
(* end does.  The coordinator and the mail are external.  Key material is  *)
(* [gen, idx], the key GenerateKeyset drew for an index; the pair of keys  *)
(* that signs is left out, as are encodings.                               *)
(***************************************************************************)
EXTENDS Naturals, FiniteSetsExt

CONSTANTS
    Tools,          \* command processes on the directory
    Enrollers,      \* the ones that run cloudy-enroll; the others run operator-keygen
    KeyIndexCount,  \* operator.KeyIndexCount, 7 in the protocol
    MaxGen,         \* bound on key sets in existence at a time
    MaxCode,        \* bound on verification codes in existence at a time
    Found,          \* directories the operator may start from
    CodeSource,     \* "prompt": a person reads the mail; "file": -code-file
    MaxFailures,    \* bound on commands that die and messages that are lost
    MaxClock,       \* bound on the clock cloudyd's signer starts from
    None, Absent, Torn  \* no value; no such file; a file created and not yet written

Index == 0..(KeyIndexCount - 1)
Gens == 1..MaxGen
Codes == 1..MaxCode
Keys == [gen : Gens, idx : Index]
Keysets == [Index -> Keys]
Seeds == [Index -> Keys \cup {Absent, Torn}]

\* TransmissionSigner: the keys, and the last Seq.
Signers == [ks : Keysets, seq : Nat]

\* LoadKeyset: every file there and whole, the keys pairwise distinct.
Loadable(dir) ==
    /\ \A i \in Index : dir[i] \in Keys
    /\ \A i, j \in Index : i # j => dir[i] # dir[j]

\* The seven keys of one GenerateKeyset, each at its index.
Whole(k) == \E g \in Gens : \A i \in Index : k[i] = [gen |-> g, idx |-> i]

ASSUME KeyAssumption == KeyIndexCount \in Nat \ {0} /\ MaxGen \in Nat /\ MaxCode \in Nat
ASSUME BoundAssumption == MaxFailures \in Nat /\ MaxClock \in Nat
ASSUME ToolAssumption == Enrollers \subseteq Tools /\ CodeSource \in {"prompt", "file"}
\* The operator starts from an empty directory, or from one GenerateKeyset's files: all,
\* some, or some of them copied over others.
ASSUME FoundAssumption ==
    \A dir \in Found :
        /\ dir \in Seeds
        /\ \A i, j \in Index : dir[i] \in Keys /\ dir[j] \in Keys => dir[i].gen = dir[j].gen
        /\ Loadable(dir) => Whole(dir)
ASSUME SentinelAssumption ==
    /\ Absent \notin Keys /\ Torn \notin Keys /\ Absent # Torn
    /\ None \notin Keysets /\ None \notin Signers

VARIABLES
    seeds,     \* what key-<i>.seed holds
    pc,        \* where each command is; "idle" when it is not running
    ks,        \* the key set it holds
    at,        \* Save's loop index
    code,      \* the verification code it was given
    told,      \* the operator has read "OPERATOR ACTIVE"
    op,        \* the coordinator's record of the operator
    mail,      \* a code under way in the mail
    inbox,     \* the last code delivered: to a person, or into the code file
    signer,    \* cloudyd's TransmissionSigner
    issued,    \* history: the largest Seq signed so far
    now,       \* the clock
    failures

command == <<pc, ks, at, code, told>>
coordinator == <<op, mail, inbox>>
daemon == <<signer, issued, now>>
vars == <<seeds, command, coordinator, daemon, failures>>

Init ==
    /\ seeds \in Found
    /\ pc = [t \in Tools |-> "idle"]
    /\ ks = [t \in Tools |-> None]
    /\ at = [t \in Tools |-> 0]
    /\ code = [t \in Tools |-> None]
    /\ told = FALSE
    /\ op = [applied |-> FALSE, keys |-> None, code |-> None, verified |-> FALSE,
             runs |-> {}, passed |-> FALSE]
    /\ mail = None
    /\ inbox = None
    /\ signer = None
    /\ issued = 0
    /\ now = 0
    /\ failures = 0

-----------------------------------------------------------------------------
(* Keyset custody. *)

Empty == [i \in Index |-> Absent]

Holding == {ks[t] : t \in Tools} \cup {op.keys, seeds} \cup (IF signer = None THEN {} ELSE {signer.ks})
InUse == {h[i].gen : i \in Index, h \in {h \in Holding \ {None} : h \in Keysets}}
            \cup {seeds[i].gen : i \in {i \in Index : seeds[i] \in Keys}}

\* GenerateKeyset: fresh random keys, named by the least generation not in use.
GenerateKeyset ==
    LET g == Min(Gens \ InUse) IN [i \in Index |-> [gen |-> g, idx |-> i]]

\* A command ends; what it held in memory goes.
Exit(t) ==
    /\ pc' = [pc EXCEPT ![t] = "idle"]
    /\ ks' = [ks EXCEPT ![t] = None]
    /\ at' = [at EXCEPT ![t] = 0]
    /\ code' = [code EXCEPT ![t] = None]

Goto(t, label) == pc' = [pc EXCEPT ![t] = label]

\* operator-keygen, and cloudy-enroll -gen-keys.
Generate(t) ==
    /\ pc[t] = "idle"
    /\ Gens \ InUse # {}
    /\ ks' = [ks EXCEPT ![t] = GenerateKeyset]
    /\ Goto(t, "save")
    /\ UNCHANGED <<seeds, at, code, told, coordinator, daemon, failures>>

EnrolsUnsaved(t) ==
    /\ pc[t] = "save"
    /\ IF seeds = Empty
       THEN Goto(t, "create") /\ UNCHANGED <<ks, at, code>>
       ELSE IF t \in Enrollers
       THEN Goto(t, "apply") /\ UNCHANGED <<ks, at, code>>
       ELSE Exit(t)
    /\ UNCHANGED <<seeds, told, coordinator, daemon, failures>>

\* Save looks at all the paths before it writes any.
SaveCheck(t) ==
    /\ pc[t] = "save"
    /\ IF seeds = Empty
       THEN Goto(t, "create") /\ UNCHANGED <<ks, at, code>>
       ELSE Exit(t)
    /\ UNCHANGED <<seeds, told, coordinator, daemon, failures>>

CreatesOver(t) ==
    /\ pc[t] = "create"
    /\ seeds' = [seeds EXCEPT ![at[t]] = Torn]
    /\ Goto(t, "fill")
    /\ UNCHANGED <<ks, at, code, told, coordinator, daemon, failures>>

\* writeSeedFile opens with O_EXCL, so a file that appeared since stops it.
SaveCreate(t) ==
    /\ pc[t] = "create"
    /\ IF seeds[at[t]] = Absent
       THEN /\ seeds' = [seeds EXCEPT ![at[t]] = Torn]
            /\ Goto(t, "fill")
            /\ UNCHANGED <<ks, at, code>>
       ELSE Exit(t) /\ UNCHANGED seeds
    /\ UNCHANGED <<told, coordinator, daemon, failures>>

\* The seed is written, and taken as durable once it is: writeSeedFile does not sync, so
\* this is about processes that die (Die), not about a machine that loses power.
SaveFill(t) ==
    /\ pc[t] = "fill"
    /\ seeds' = [seeds EXCEPT ![at[t]] = ks[t][at[t]]]
    /\ IF at[t] + 1 \in Index
       THEN /\ at' = [at EXCEPT ![t] = @ + 1]
            /\ Goto(t, "create")
            /\ UNCHANGED <<ks, code>>
       ELSE IF t \in Enrollers
       THEN /\ at' = [at EXCEPT ![t] = 0]
            /\ Goto(t, "apply")
            /\ UNCHANGED <<ks, code>>
       ELSE Exit(t)
    /\ UNCHANGED <<told, coordinator, daemon, failures>>

\* cloudy-enroll without -gen-keys; it exits when LoadKeyset fails.  The operator
\* runs it until it has reported the operator active.
Load(t) ==
    /\ t \in Enrollers
    /\ pc[t] = "idle"
    /\ ~told
    /\ Loadable(seeds)
    /\ ks' = [ks EXCEPT ![t] = seeds]
    /\ Goto(t, "apply")
    /\ UNCHANGED <<seeds, at, code, told, coordinator, daemon, failures>>

\* The operator removes seed files that LoadKeyset refuses, when nothing writes them.
RemoveBroken ==
    /\ \A t \in Tools : pc[t] \notin {"create", "fill"}
    /\ seeds # Empty
    /\ ~Loadable(seeds)
    /\ seeds' = Empty
    /\ UNCHANGED <<command, coordinator, daemon, failures>>

Fails == failures < MaxFailures /\ failures' = failures + 1

\* A command is killed, a write fails, a request is lost, or no code comes in time: it
\* exits with the error.
Die(t) ==
    /\ pc[t] # "idle"
    /\ Fails
    /\ Exit(t)
    /\ UNCHANGED <<seeds, told, coordinator, daemon>>

-----------------------------------------------------------------------------
(* Client.Enroll, call by call.  `heard` says whether the answer arrives. *)

Active == op.passed /\ op.verified

\* A call returns: on with the next step, or an error that ends the command.
Returns(t, heard, ok, label) ==
    /\ IF heard /\ ok THEN Goto(t, label) /\ UNCHANGED <<ks, at, code>> ELSE Exit(t)
    /\ IF heard THEN UNCHANGED failures ELSE Fails
    /\ UNCHANGED <<seeds, daemon>>

RefusesExisting(t, heard) ==
    /\ pc[t] = "apply"
    /\ op' = [op EXCEPT !.applied = TRUE]
    /\ Returns(t, heard, ~op.applied, "registerKeys")
    /\ UNCHANGED <<told, mail, inbox>>

\* 201, or 409 for an operator that exists: Enroll goes on after either.
Apply(t, heard) ==
    /\ pc[t] = "apply"
    /\ op' = [op EXCEPT !.applied = TRUE]
    /\ Returns(t, heard, TRUE, "registerKeys")
    /\ UNCHANGED <<told, mail, inbox>>

\* "Re-registering clears any prior conformance pass."
RegisterKeys(t, heard) ==
    /\ pc[t] = "registerKeys"
    /\ op' = [op EXCEPT !.keys = ks[t], !.passed = FALSE]
    /\ Returns(t, heard, TRUE, "verifyStart")
    /\ UNCHANGED <<told, mail, inbox>>

CodesInUse == {code[u] : u \in Tools} \cup {op.code, mail, inbox}

\* "a fresh verification code bound to sessionID": every run of a slug has the
\* same session, so the code before it is void.
VerifyStart(t, heard) ==
    /\ pc[t] = "verifyStart"
    /\ Codes \ CodesInUse # {}
    /\ LET fresh == Min(Codes \ CodesInUse)
       IN op' = [op EXCEPT !.code = fresh] /\ mail' = fresh
    /\ Returns(t, heard, TRUE, "code")
    /\ UNCHANGED <<told, inbox>>

Deliver ==
    /\ mail # None
    /\ inbox' = mail
    /\ mail' = None
    /\ UNCHANGED <<seeds, command, op, daemon, failures>>

\* A person types the code once it has come.  fileCodeSource takes what the file
\* holds, the code of an earlier run too.
Code(t) ==
    /\ pc[t] = "code"
    /\ inbox # None
    /\ CodeSource = "prompt" => mail = None
    /\ code' = [code EXCEPT ![t] = inbox]
    /\ Goto(t, "verifyCheck")
    /\ UNCHANGED <<seeds, ks, at, told, coordinator, daemon, failures>>

VerifyCheck(t, heard) ==
    /\ pc[t] = "verifyCheck"
    /\ LET ok == code[t] = op.code
       IN /\ op' = IF ok THEN [op EXCEPT !.code = None, !.verified = TRUE] ELSE op
          /\ Returns(t, heard, ok, "conformanceStart")
    /\ UNCHANGED <<told, mail, inbox>>

ConformanceStart(t, heard) ==
    /\ pc[t] = "conformanceStart"
    /\ op' = [op EXCEPT !.runs = @ \cup {t}]
    /\ Returns(t, heard, TRUE, "conformanceSubmit")
    /\ UNCHANGED <<told, mail, inbox>>

\* AnswerChallenges signs suites A and B with the keys in hand.
AnswerChallenges(t) == [suite \in {"A", "B"} |-> ks[t]]

\* The coordinator grades the signatures against the keys it holds.
Grade(answers) == \A suite \in {"A", "B"} : answers[suite] = op.keys

\* Enroll and run after the last call: nothing follows, whatever it returned.
ConformanceSubmit(t, heard) ==
    /\ pc[t] = "conformanceSubmit"
    /\ LET passed == t \in op.runs /\ Grade(AnswerChallenges(t))
       IN /\ op' = [op EXCEPT !.runs = @ \ {t}, !.passed = @ \/ passed]
          /\ told' = (told \/ (heard /\ passed /\ Active'))
    /\ Returns(t, heard, FALSE, "idle")
    /\ UNCHANGED <<mail, inbox>>

-----------------------------------------------------------------------------
(* cloudyd: newRelay loads the keys and puts a TransmissionSigner over them. *)

SignerFromZero ==
    /\ signer = None
    /\ Loadable(seeds)
    /\ signer' = [ks |-> seeds, seq |-> 0]
    /\ UNCHANGED <<seeds, command, coordinator, issued, now, failures>>

\* Seq starts at the clock, which is all that survives a restart.
NewTransmissionSigner ==
    /\ signer = None
    /\ Loadable(seeds)
    /\ signer' = [ks |-> seeds, seq |-> now]
    /\ UNCHANGED <<seeds, command, coordinator, issued, now, failures>>

\* Next, for one request upstream; signing takes a tick of the nanosecond clock.
SignNext ==
    /\ signer # None
    /\ now < MaxClock
    /\ signer' = [signer EXCEPT !.seq = @ + 1]
    /\ issued' = Max({issued, signer.seq + 1})
    /\ now' = now + 1
    /\ UNCHANGED <<seeds, command, coordinator, failures>>

Tick ==
    /\ now < MaxClock
    /\ now' = now + 1
    /\ UNCHANGED <<seeds, command, coordinator, signer, issued, failures>>

StopDaemon ==
    /\ signer # None
    /\ signer' = None
    /\ UNCHANGED <<seeds, command, coordinator, issued, now, failures>>

-----------------------------------------------------------------------------

Call(t, heard) ==
    \/ Apply(t, heard)
    \/ RegisterKeys(t, heard)
    \/ VerifyStart(t, heard)
    \/ VerifyCheck(t, heard)
    \/ ConformanceStart(t, heard)
    \/ ConformanceSubmit(t, heard)

Save(t) == SaveCheck(t) \/ SaveCreate(t) \/ SaveFill(t)

Next ==
    \/ \E t \in Tools :
          \/ Generate(t) \/ Load(t) \/ Save(t) \/ Code(t) \/ Die(t)
          \/ \E heard \in BOOLEAN : Call(t, heard)
    \/ RemoveBroken
    \/ Deliver
    \/ NewTransmissionSigner
    \/ SignNext
    \/ Tick
    \/ StopDaemon

\* Commands run on, mail arrives, and an operator whose enrolment failed tries again
\* in the way the directory asks for.
Fairness ==
    /\ WF_vars(Deliver)
    /\ SF_vars(RemoveBroken)
    /\ \A t \in Tools : WF_vars(Save(t) \/ Code(t) \/ Call(t, TRUE))
    /\ \A t \in Enrollers : SF_vars(Load(t)) /\ SF_vars(seeds = Empty /\ Generate(t))

Spec == Init /\ [][Next]_vars /\ Fairness

-----------------------------------------------------------------------------
(* Properties. *)

\* "refusing to overwrite" (ErrKeysetFileExists): however Saves race or die, and
\* although they look first and write later, the directory never holds seeds of two
\* key sets, and whoever loads one gets the whole of one.
NoMixedKeyset ==
    /\ \A i, j \in Index : seeds[i] \in Keys /\ seeds[j] \in Keys => seeds[i].gen = seeds[j].gen
    /\ \A k \in {ks[t] : t \in Tools} \cup {op.keys} \cup (IF signer = None THEN {} ELSE {signer.ks}) :
          k # None => Whole(k)

\* The coordinator never holds public keys whose seeds a crash has lost, and verifies
\* what cloudyd signs: the registered keys, the directory's and the signer's are one.
RegisteredKeysAreKept ==
    op.keys # None => /\ seeds = op.keys
                      /\ signer # None => signer.ks = op.keys

\* "Seq ... stays monotone across process restarts WITHOUT disk state"
\* (TransmissionSigner), as long as the clock does not go back: a signer never issues
\* a Seq that it or one before it has issued.
SeqAdvances ==
    [][issued' # issued \/ (signer # None /\ signer' # None /\ signer' # signer)
          => signer'.seq > issued]_vars

\* "a re-run" is "idempotent enough to complete enrollment" (Enroll): through crashes,
\* half-written key sets and lost answers, the operator of an enrolment that is tried
\* until it reports success becomes active, and stays so.
EnrolmentCompletes == <>[]Active
=============================================================================
