---------------------------- MODULE SecIngestion ----------------------------
(***************************************************************************)
(* sec/pipeline.py and sec/store.py: the tables filings and                *)
(* sec_processing_rejections, and the three stages that take a filing from *)
(* the SEC's feed to a review packet (poll, XML enrichment, enqueue), as   *)
(* the worker of `ops sec-ingestion` repeats them and as an operator runs  *)
(* them one by one.                                                        *)
(*                                                                         *)
(* A stage reads its rows, makes its requests and then commits, so another *)
(* process may write in between; the enrichment commits twice, and so does *)
(* the enqueue.  What the SEC serves for a row never changes.              *)
(***************************************************************************)
EXTENDS Naturals, FiniteSets

CONSTANTS
    Runs, Scheduled,    \* processes that ingest; one of them repeats whole cycles
    Filings,            \* rows: an accession number with a CIK and a form type
    Accession,          \* [Filings -> ...], accession number and form type of a row
    Rank,               \* [Filings -> Nat], the order of filed_at
    Page,               \* [Filings -> Pages], the detail URL of a row and what it serves
    Document,           \* [Filings -> Documents], what the located XML document is
    Dead,               \* rows whose detail page is refused for ever
    Listed,             \* rows the SEC lists at the start
    Legacy,             \* stored rows of an earlier release that name another form
    PollMaxItems, EnrichLimit, EnqueueLimit,
    MaxCommands,        \* bound on the operator's commands
    MaxFaults           \* bound on failed requests, failed cycles and crashes

\* A detail URL, the document table of the page behind it ("unread" has no type column),
\* and whether a link to the Form 4 document stands where it is looked for.
Pages == [url : {"foreign", "document", "page"}, table : {"none", "unread", "read"},
          link : BOOLEAN]

Documents == {"form4", "other", "broken"}

IngestionAssumption ==
    /\ Scheduled \in Runs
    /\ IsFiniteSet(Filings)
    /\ \A f, g \in Filings : Rank[f] = Rank[g] => f = g
    /\ Rank \in [Filings -> Nat]
    /\ Page \in [Filings -> Pages]
    /\ Document \in [Filings -> Documents]
    /\ \A f, g \in Filings : Accession[f] = Accession[g] => Document[f] = Document[g]
    /\ Dead \subseteq Filings
    /\ Listed \subseteq Filings
    /\ Legacy \subseteq Filings
    /\ {PollMaxItems, EnrichLimit, EnqueueLimit} \subseteq Nat \ {0}
    /\ MaxCommands \in Nat
    /\ MaxFaults \in Nat

VARIABLES
    published,  \* rows the SEC lists
    stored,     \* filings
    located,    \* those with form4_xml_url
    rejected,   \* sec_processing_rejections: pairs of a stage and a row
    packets,    \* rows that have a review packet
    run,        \* run[r]: the stage of a process, and what it is about to commit
    commands,
    faults

vars == <<published, stored, located, rejected, packets, run, commands, faults>>

Idle == [at |-> "idle", good |-> {}, bad |-> {}]

\* ORDER BY filed_at DESC LIMIT n, and ASC.
Newest(S, n) == {f \in S : Cardinality({g \in S : Rank[g] > Rank[f]}) < n}
Oldest(S, n) == {f \in S : Cardinality({g \in S : Rank[g] < Rank[f]}) < n}

\* locate_form4_xml: a page with a document table is searched in its Form 4 rows only.
Found(f) ==
    \/ Page[f].url = "document"
    \/ Page[f].url = "page" /\ Page[f].table # "unread" /\ Page[f].link

\* Without a document, such a row is rejected for good; any other is tried again.
Rejectable(f) ==
    \/ Page[f].url = "foreign"
    \/ Page[f].url = "page" /\ Page[f].table = "read" /\ ~ Page[f].link

\* Rows that need a request before they can be located.
Requested(S) == {f \in S : Page[f].url = "page"}

HasPacket(f) == \E p \in packets : Accession[p] = Accession[f]

\* Mutant: rejected rows are listed again.
MissingAny == {f \in stored \ (located \cup Legacy) : TRUE}

\* WHERE of list_filings_missing_xml.
Missing == {f \in stored \ (located \cup Legacy) : <<"xml_enrichment", f>> \notin rejected}

Eligible == {f \in located \ Legacy : <<"review_xml", f>> \notin rejected}

\* The deduped rows of enqueue_review_packets.
Reviewable ==
    {f \in Eligible : /\ ~ HasPacket(f)
                      /\ \A g \in Eligible : Accession[g] = Accession[f] => Rank[g] <= Rank[f]}

Init ==
    /\ published = Listed
    /\ stored = Legacy
    /\ located = {}
    /\ rejected = {}
    /\ packets = {}
    /\ run = [r \in Runs |-> Idle]
    /\ commands = 0
    /\ faults = 0

\* The stages follow each other in a cycle; an operator's command is one stage.
At(r, stage) ==
    /\ run[r].at = IF r = Scheduled THEN stage ELSE "idle"
    /\ commands' = IF r = Scheduled THEN commands ELSE commands + 1
    /\ commands' <= MaxCommands

Done(r, stage) == run' = [run EXCEPT ![r] = IF r = Scheduled THEN [Idle EXCEPT !.at = stage]
                                                             ELSE Idle]
Commits(r, stage, good, bad) == run' = [run EXCEPT ![r] = [at |-> stage, good |-> good, bad |-> bad]]

-----------------------------------------------------------------------------
(* The three stages *)

\* run_sec_poll_once: the newest entries of the feed that are Forms 4, in one commit.
Poll(r) ==
    /\ At(r, "idle")
    /\ stored' = stored \cup Newest(published \ Legacy, PollMaxItems)
    /\ Done(r, "polled")
    /\ UNCHANGED <<published, located, rejected, packets, faults>>

\* Requests among S that fail: those of the dead rows, and any others at a fault.
Fail(S, failed) ==
    /\ S \cap Dead \subseteq failed
    /\ failed \subseteq S
    /\ faults' = IF failed = S \cap Dead THEN faults ELSE faults + 1
    /\ faults' <= MaxFaults

\* enrich_filings_with_xml_url up to its first commit.
ListMissing(r) ==
    LET rows == Newest(Missing, EnrichLimit)
    IN  /\ At(r, "polled")
        /\ \E failed \in SUBSET Requested(rows) :
             /\ Fail(Requested(rows), failed)
             /\ Commits(r, "rejecting", {f \in rows \ failed : Found(f)},
                                        {f \in rows \ failed : Rejectable(f)})
        /\ UNCHANGED <<published, stored, located, rejected, packets>>

RejectPages(r) ==
    /\ run[r].at = "rejecting"
    /\ rejected' = rejected \cup ({"xml_enrichment"} \X run[r].bad)
    /\ run' = [run EXCEPT ![r].at = "updating", ![r].bad = {}]
    /\ UNCHANGED <<published, stored, located, packets, commands, faults>>

StoreUrls(r) ==
    /\ run[r].at = "updating"
    /\ located' = located \cup run[r].good
    /\ Done(r, "enriched")
    /\ UNCHANGED <<published, stored, rejected, packets, commands, faults>>

\* enqueue_review_packets up to its first commit; the bootstrap of the event study lists
\* the oldest rows first.
ListReview(r) ==
    /\ At(r, "enriched")
    /\ \E rows \in {Newest(Reviewable, EnqueueLimit)}
                     \cup (IF r = Scheduled THEN {} ELSE {Oldest(Reviewable, EnqueueLimit)}) :
         \E failed \in SUBSET rows :
           /\ failed # {} => faults < MaxFaults
           /\ faults' = IF failed = {} THEN faults ELSE faults + 1
           /\ Commits(r, "reviewing", {f \in rows \ failed : Document[f] = "form4"},
                                      {f \in rows \ failed : Document[f] = "other"})
    /\ UNCHANGED <<published, stored, located, rejected, packets>>

RejectDocuments(r) ==
    /\ run[r].at = "reviewing"
    /\ rejected' = rejected \cup ({"review_xml"} \X run[r].bad)
    /\ run' = [run EXCEPT ![r].at = "queueing", ![r].bad = {}]
    /\ UNCHANGED <<published, stored, located, packets, commands, faults>>

\* enqueue_review_packets_batch.
EnqueuePackets(r) ==
    /\ run[r].at = "queueing"
    /\ packets' = packets \cup {f \in run[r].good : ~ HasPacket(f)}
    /\ Done(r, "idle")
    /\ UNCHANGED <<published, stored, located, rejected, commands, faults>>

-----------------------------------------------------------------------------
(* The operator's backfill, the SEC, and failures *)

\* backfill_form4_filings: the rows of a range of days, from the quarterly indexes.
Backfill(r) ==
    /\ r # Scheduled
    /\ At(r, "idle")
    /\ \E first, last \in {Rank[f] : f \in published} :
         stored' = stored \cup {f \in published \ Legacy : Rank[f] \in first .. last}
    /\ UNCHANGED <<published, located, rejected, packets, run, faults>>

Publish(f) ==
    /\ f \notin published
    /\ \A g \in Filings : Rank[g] < Rank[f] => g \in published
    /\ published' = published \cup {f}
    /\ UNCHANGED <<stored, located, rejected, packets, run, commands, faults>>

\* A crash, or an exception that _record_retryable_cycle_failure notes: the next cycle
\* begins anew.
CycleFails(r) ==
    /\ run[r].at # "idle"
    /\ faults < MaxFaults
    /\ faults' = faults + 1
    /\ run' = [run EXCEPT ![r] = Idle]
    /\ UNCHANGED <<published, stored, located, rejected, packets, commands>>

Step(r) ==
    \/ Poll(r)
    \/ ListMissing(r) \/ RejectPages(r) \/ StoreUrls(r)
    \/ ListReview(r) \/ RejectDocuments(r) \/ EnqueuePackets(r)

Next ==
    \/ \E r \in Runs : Step(r) \/ Backfill(r) \/ CycleFails(r)
    \/ \E f \in Filings : Publish(f)

\* The scheduled worker repeats its cycle.
FairSpec == Init /\ [][Next]_vars /\ WF_vars(Step(Scheduled))

-----------------------------------------------------------------------------
(* Properties *)

TypeOK ==
    /\ published \subseteq Filings
    /\ stored \subseteq Filings
    /\ located \subseteq stored
    /\ rejected \subseteq {"xml_enrichment", "review_xml"} \X stored
    /\ packets \subseteq located
    /\ run \in [Runs -> [at : {"idle", "polled", "rejecting", "updating", "enriched",
                               "reviewing", "queueing"},
                         good : SUBSET stored, bad : SUBSET stored]]
    /\ commands \in 0 .. MaxCommands
    /\ faults \in 0 .. MaxFaults

\* What no number of cycles gets past, and what is tried again in each.
HopelessPages     == Dead \cup {f \in Filings : ~ Found(f) /\ ~ Rejectable(f)}
HopelessDocuments == {f \in Filings : Document[f] = "broken"}

Settled(f) ==
    \/ <<"xml_enrichment", f>> \in rejected
    \/ <<"review_xml", f>> \in rejected
    \/ HasPacket(f)

\* The limits of list_filings_missing_xml and enqueue_review_packets take the newest rows
\* first, and rows that fail for ever are listed in every cycle: while there are fewer of
\* them than a batch holds, every stored filing that can be settled is, once the SEC lists
\* no more, and an accession has one packet, whichever of its rows and processes come first.
FilingsSettled ==
    /\ [](\A p, q \in packets : Accession[p] = Accession[q] => p = q)
    /\ (Cardinality(HopelessPages) < EnrichLimit
          /\ Cardinality({Accession[f] : f \in HopelessDocuments}) < EnqueueLimit)
         => <>[](\A f \in stored \ (Legacy \cup HopelessPages \cup HopelessDocuments) :
                    Settled(f))
=============================================================================
