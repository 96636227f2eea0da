------------------------------ MODULE MCLoops ------------------------------
(* Two loops that must settle what they are given, in one run: the notices of the *)
(* live canary, and the ingestion of SEC filings.  They share no variable; the    *)
(* initial state chooses the one that moves.                                      *)
EXTENDS MCOperationalIncidents

CONSTANTS iw, io, f1a, f1b, fd, fh, fn, fl

VARIABLES loop, s_published, s_stored, s_located, s_rejected, s_packets, s_run, s_commands,
          s_faults

ingestion == <<s_published, s_stored, s_located, s_rejected, s_packets, s_run, s_commands,
               s_faults>>

Rows == {f1a, f1b, fd, fh, fn, fl}

PageOf(f) ==
    CASE f = fn -> [url |-> "page", table |-> "read", link |-> FALSE]
      [] f = fd -> [url |-> "document", table |-> "none", link |-> FALSE]
      [] OTHER -> [url |-> "page", table |-> "read", link |-> TRUE]

DocumentOf(f) == CASE f = fd -> "other" [] f = fh -> "broken" [] OTHER -> "form4"

\* From the oldest: two rows of one accession, a document that is no Form 4, one that is
\* never understood, a page without a document (not listed at first), and a legacy row of
\* another form.  The feed does not reach back to the first row.
Ingestion == INSTANCE SecIngestion WITH
    Runs <- {iw, io}, Scheduled <- iw, Filings <- Rows,
    Accession <- [f \in Rows |-> IF f = f1b THEN f1a ELSE f],
    Rank <- f1a :> 1 @@ f1b :> 2 @@ fd :> 3 @@ fh :> 4 @@ fn :> 5 @@ fl :> 6,
    Page <- [f \in Rows |-> PageOf(f)], Document <- [f \in Rows |-> DocumentOf(f)],
    Dead <- {}, Listed <- {f1a, f1b, fd, fh}, Legacy <- {fl},
    PollMaxItems <- 3, EnrichLimit <- 1, EnqueueLimit <- 2, MaxCommands <- 2, MaxFaults <- 1,
    published <- s_published, stored <- s_stored, located <- s_located,
    rejected <- s_rejected, packets <- s_packets, run <- s_run, commands <- s_commands,
    faults <- s_faults

ASSUME Ingestion!IngestionAssumption

Loops(name) == loop = name

InitLoops ==
    /\ loop \in {"notices", "filings"}
    /\ Init
    /\ Ingestion!Init

NextLoops ==
    /\ \/ Loops("notices") /\ Next /\ UNCHANGED ingestion
       \/ Loops("filings") /\ Ingestion!Next /\ UNCHANGED vars
    /\ UNCHANGED loop

\* Each loop runs under its own fairness, Running and that of SecIngestion.
FairLoops ==
    /\ InitLoops
    /\ [][NextLoops]_<<vars, loop, ingestion>>
    /\ []<>CaughtUp
    /\ SF_vars(Loops("notices") /\ Tick)
    /\ \A w \in Workers :
         /\ WF_vars(Loops("notices") /\ Cycle(w))
         /\ WF_vars(Loops("notices") /\ TakeBatch(w))
         /\ WF_vars(Loops("notices") /\ Record(w))
         /\ WF_vars(Loops("notices") /\ Dispatch(w))
         /\ WF_vars(Loops("notices") /\ (Deliver(w) \/ Refuse(w)))
         /\ \A ph \in Phases :
              SF_vars(Loops("notices") /\ Deliver(w) /\ sending[w].phase = ph)
    /\ WF_ingestion(Loops("filings") /\ Ingestion!Step(iw))

\* Every stored filing that can be settled is, and an accession has one packet
\* (pipeline.py, store.py).
FilingsSettled == Loops("filings") => Ingestion!FilingsSettled
=============================================================================
