---------------------------- MODULE MCCredential ----------------------------
(* A directory that is empty, or one in which a seed file was copied over     *)
(* another.                                                                    *)
EXTENDS Credential

CONSTANTS enroll, keygen, none, absent, torn

MCFound ==
    {[i \in Index |-> Absent],
     [i \in Index |-> [gen |-> 1, idx |-> IF i = 1 THEN 0 ELSE i]]}
=============================================================================
