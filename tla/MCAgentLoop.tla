---------------------------- MODULE MCAgentLoop ----------------------------
(* The scavenged and the pinned node that main builds, and four starts that *)
(* must fail; jobs the node runs, and one to decline for each reason.        *)
EXTENDS AgentLoop

CONSTANTS nojob, unlisted

config1(placement, kinds, executors) ==
    [placement |-> placement, kinds |-> kinds, executors |-> executors]
executor(kind, preemptible) == [kind |-> kind, preemptible |-> preemptible]

compute == executor("compute", TRUE)
storage == executor("storage", TRUE)
presence == executor("service", FALSE)

MCConfigs ==
    {config1("scavenged", <<"compute", "storage">>, <<compute, storage>>),
     config1("pinned", <<"compute", "service">>, <<compute, presence>>),
     config1("scavenged", <<"compute", "service">>, <<compute, presence>>),
     config1("scavenged", <<"compute", "storage">>, <<executor("compute", FALSE)>>),
     config1("pinned", <<"compute", "storage">>, <<compute, executor("print", TRUE)>>),
     config1("pinned", <<"compute", "compute">>, <<compute>>)}

assignment(kind, ours, signed) == [kind |-> kind, ours |-> ours, signed |-> signed]

MCJobs ==
    {assignment("compute", TRUE, TRUE), assignment("storage", TRUE, FALSE),
     assignment("service", TRUE, TRUE)}
=============================================================================
