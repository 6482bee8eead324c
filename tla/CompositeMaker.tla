---------------------------- MODULE CompositeMaker ----------------------------
(***************************************************************************)
(* Making composites: components/GoesData/CompositesTab.tsx.  A composite  *)
(* is asked for with a recipe, a satellite, a sector and a time, made by a *)
(* job of the server, and followed by a list that is polled.               *)
(***************************************************************************)
EXTENDS Requests, Satellites

CONSTANTS
    MaxComposites,  \* composites ever made
    CompositePage   \* composites the list returns, the newest; 20 in the code
ASSUME CompositesAssumption == MaxComposites \in Nat \ {0} /\ CompositePage \in Nat \ {0}

VARIABLES
    maker,       \* the tab: [recipe, satellite, sector, timed, shown], shown by number
    composites   \* the server's composites: [satellite, sector, status]
makerVars == <<maker, composites>>

MakerInit ==
    /\ composites = <<>>
    /\ maker = [recipe |-> FALSE, satellite |-> "GOES-19", sector |-> "CONUS",
                timed |-> FALSE, shown |-> <<>>]

sectorOptions == IF isHimawariSatellite(maker.satellite) THEN {"FLDK"} ELSE {"CONUS"}

ChangeMakerSatellite(form, satellite) ==
    [form EXCEPT !.satellite = satellite, !.sector = getDefaultSector(satellite)]

\* A recipe opens the form.
EditComposite ==
    /\ \/ maker' = [maker EXCEPT !.recipe = TRUE]
       \/ /\ maker.recipe
          /\ \/ \E s \in {"GOES-19", "Himawari-9"} : maker' = ChangeMakerSatellite(maker, s)
             \/ \E s \in sectorOptions : maker' = [maker EXCEPT !.sector = s]
             \/ maker' = [maker EXCEPT !.timed = ~@]
    /\ UNCHANGED <<composites, reqVars>>

GenerateComposite ==
    /\ maker.recipe /\ maker.timed /\ ~isPending("compose")
    /\ Send("compose", maker.satellite, maker.sector)
    /\ UNCHANGED makerVars

LeaveComposites ==
    /\ Unmount
    /\ maker' = [maker EXCEPT !.recipe = FALSE, !.satellite = "GOES-19", !.sector = "CONUS",
                              !.timed = FALSE]
    /\ UNCHANGED composites

-----------------------------------------------------------------------------

ServeComposite(q) ==
    /\ \/ /\ Len(composites) < MaxComposites
          /\ composites' = Append(composites, [satellite |-> q.id, sector |-> q.val,
                                               status |-> "pending"])
          /\ \E state \in {"ok", "failed"} : Respond(q, state)
       \/ Respond(q, "failed") /\ UNCHANGED composites
    /\ UNCHANGED maker

AnswerComposite(q) == Settle(q) /\ UNCHANGED makerVars

CompositeRuns(c) ==
    /\ composites[c].status = "pending"
    /\ \E end \in {"completed", "failed"} : composites' = [composites EXCEPT ![c].status = end]
    /\ UNCHANGED <<maker, reqVars>>

\* Mutant: the list is polled only while it shows something that runs.
PollsWhilePending == \E c \in DOMAIN maker.shown : maker.shown[c].status = "pending"

\* The list is polled every 5 seconds, whatever it shows.
PollsComposites == TRUE

\* GET /satellite/composites without a page: the newest, by their number.
ListedComposites == {c \in DOMAIN composites : c > Len(composites) - CompositePage}

PollComposites ==
    /\ PollsComposites
    /\ maker' = [maker EXCEPT !.shown = [c \in ListedComposites |-> composites[c]]]
    /\ maker' # maker
    /\ UNCHANGED <<composites, reqVars>>

MakerServer ==
    \/ \E q \in reqs : ServeComposite(q) \/ AnswerComposite(q)
    \/ \E c \in DOMAIN composites : CompositeRuns(c)
MakerNext == EditComposite \/ GenerateComposite \/ LeaveComposites \/ MakerServer \/ PollComposites

-----------------------------------------------------------------------------
(* Properties. *)

MakerTypeOK ==
    /\ maker.satellite \in {"GOES-19", "Himawari-9"} /\ maker.recipe \in BOOLEAN
    /\ DOMAIN maker.shown \subseteq DOMAIN composites /\ Len(composites) <= MaxComposites

\* Each composite asked for is of a sector of its satellite, whatever was chosen
\* before and after its request was sent.
CompositesServable ==
    \A c \in DOMAIN composites :
        isHimawariSatellite(composites[c].satellite) <=> composites[c].sector = "FLDK"

\* A composite that has come to its end is shown as ended, also when the answer
\* to its own request was lost, unless newer ones have filled the list: the tab
\* has no further page, and what is no longer listed is never shown to end.
CompositeEndsShown ==
    \A c \in 1..MaxComposites :
        (c \in ListedComposites /\ composites[c].status # "pending")
            ~> \/ c \in DOMAIN maker.shown /\ maker.shown[c].status # "pending"
               \/ c \notin ListedComposites
=============================================================================
