----------------------------- MODULE BootReport -----------------------------
(***************************************************************************)
(* scripts/summarize-boot.py: what is published about one capture.  A      *)
(* capture directory is its metadata m and its timeline tl, a sequence of  *)
(* records in file order, each with an event and a time t.  UART text is a *)
(* sequence of pieces: "banner" is the kernel's first line, "head" and     *)
(* "tail" the two halves of a readiness marker, "noise" anything else.     *)
(* JSON types, limits on sizes and regular expressions are abstracted; an  *)
(* InputError is a refusal.  A list that the code filters out of the       *)
(* timeline is here the set of its places in it.                           *)
(***************************************************************************)
EXTENDS Integers, Sequences, FiniteSetsExt

\* Python's None where a time is expected, and the label of SCPI references.
None  == -1
Power == "scpi_power_on_command_send"

GoodStatuses == {"ready", "capture_complete", "readiness_timeout"}

FirstOf(S) == IF S = {} THEN None ELSE Min(S)
LastOf(S)  == IF S = {} THEN None ELSE Max(S)

\* The records of one kind from start on and before end; None is no bound.
Places(tl, kind, start, end) ==
    {i \in DOMAIN tl : /\ tl[i].event = kind
                       /\ start <= tl[i].t /\ (end = None \/ tl[i].t < end)}
Stamps(tl, places) == {tl[i].t : i \in places}

\* read_inputs: the code goes through the records by time, in file order where
\* times are equal.
Precedes(tl, i, j) == tl[i].t < tl[j].t \/ (tl[i].t = tl[j].t /\ i < j)

\* reference_window: the one power reference the metadata names, and the
\* reference that follows it.
ReferenceWindow(m, tl) ==
    LET references == Places(tl, "reference_started", None, None)
        matches == {i \in references : /\ tl[i].label = Power
                                       /\ m.reference \in {None, tl[i].t}}
        start   == tl[CHOOSE i \in matches : TRUE].t
    IN  IF Cardinality(matches) # 1 \/ (m.reference # None /\ m.label # Power)
        THEN [refused |-> TRUE, start |-> None, end |-> None]
        ELSE [refused |-> FALSE, start |-> start,
              end |-> FirstOf({t \in Stamps(tl, references) : t > start})]

(***************************************************************************)
(* uart_text, for the chunks at some places: piece i of the chunk at place *)
(* k is at <<k, i>>, and has the chunk's receive time (character_timestamp).*)
(***************************************************************************)
UartGap(tl, chunks) ==
    \E j, k \in chunks :
        /\ Precedes(tl, j, k)
        /\ ~\E i \in chunks : Precedes(tl, j, i) /\ Precedes(tl, i, k)
        /\ tl[k].offset # tl[j].offset + Len(tl[j].text)

Pieces(tl, chunks) == UNION {{k} \X DOMAIN tl[k].text : k \in chunks}
Piece(tl, p)  == tl[p[1]].text[p[2]]
Stamp(tl, p)  == tl[p[1]].t

Before(tl, p, q) == Precedes(tl, p[1], q[1]) \/ (p[1] = q[1] /\ p[2] < q[2])

\* The kernel banners after the first.
Restarts(tl, text) ==
    {q \in text : /\ Piece(tl, q) = "banner"
                  /\ \E p \in text : Before(tl, p, q) /\ Piece(tl, p) = "banner"}

\* Mutant of FirstBoot: the text of a second boot is searched too.
FirstBootAndLater(tl, text) == text

\* The text before the second banner.
FirstBoot(tl, text) ==
    {p \in text : \A q \in Restarts(tl, text) : Before(tl, p, q)}

\* The complete markers: a first half, and a second half right behind it.
Markers(tl, text) ==
    {m \in text \X text : /\ Piece(tl, m[1]) = "head" /\ Piece(tl, m[2]) = "tail"
                          /\ Before(tl, m[1], m[2])
                          /\ ~\E p \in text : /\ Before(tl, m[1], p)
                                             /\ Before(tl, p, m[2])}

\* Mutant of MarkerTime: the marker is stamped with its beginning.
MarkerTimeAtStart(tl, text) == FirstOf({Stamp(tl, m[1]) : m \in Markers(tl, text)})

\* The first complete marker, at the time it was completed.
MarkerTime(tl, text) == FirstOf({Stamp(tl, m[2]) : m \in Markers(tl, text)})

(***************************************************************************)
(* carrier_observations.  c is metadata['carrier_observer'], ready the     *)
(* metadata's carrier readiness, moves the places of carrier_transition.   *)
(***************************************************************************)
BaselineIsValid(c, tl, start) ==
    LET baselines  == Places(tl, "carrier_down_baseline", None, None)
        references == Places(tl, "reference_started", None, None)
    IN  /\ c.baseline # None /\ c.baseline <= start
        /\ Cardinality({i \in baselines : tl[i].t = c.baseline}) = 1
        /\ \A t \in Stamps(tl, references) : t < start => t < c.baseline

\* The link starts down; what the last of some transitions made of it.
Latest(tl, places) == CHOOSE i \in places : \A j \in places \ {i} : Precedes(tl, j, i)
LinkState(tl, moves) == IF moves = {} THEN "down" ELSE tl[Latest(tl, moves)].carrier

Alternates(tl, moves) ==
    \A k \in moves : tl[k].carrier # LinkState(tl, {j \in moves : Precedes(tl, j, k)})

Turns(tl, moves, v) == Stamps(tl, {i \in moves : tl[i].carrier = v})

ReadinessAgrees(tl, marks, moves, ready) ==
    marks # {} \/ ready # None =>
        /\ Cardinality(marks) = 1 /\ Stamps(tl, marks) = {ready}
        /\ FirstOf(Turns(tl, moves, "up")) = ready

EndAgrees(c, tl, finished, moves, start, end) ==
    /\ start <= c.last /\ (end = None \/ c.last < end)
    /\ c.state = LinkState(tl, moves)
    /\ Cardinality(finished) = 1
    /\ \A i \in finished : tl[i].carrier = c.state /\ tl[i].last = c.last
    /\ \A t \in Stamps(tl, moves) : t <= c.last

\* Every reading lies after the reference, and the gaps between them cover
\* the whole observation.
StatisticsAgree(c, moves, start) ==
    LET span == c.last - start IN
    /\ c.count >= 1 /\ c.count >= Cardinality(moves)
    /\ c.gap <= span /\ c.gap * c.count >= span /\ c.read <= c.gap

CarrierObservations(m, tl, start, end) ==
    LET c     == m.carrier
        first == m.readiness.carrier
        moves == Places(tl, "carrier_transition", start, end)
        drops == {t \in Turns(tl, moves, "down") : t >= first}
    IN  IF /\ c.present
           /\ BaselineIsValid(c, tl, start)
           /\ Alternates(tl, moves)
           /\ ReadinessAgrees(tl, Places(tl, "carrier_ready", start, end), moves, first)
           /\ EndAgrees(c, tl, Places(tl, "carrier_monitor_finished", start, end),
                        moves, start, end)
           /\ StatisticsAgree(c, moves, start)
        THEN [refused |-> FALSE, first |-> first,
              dropped |-> first # None /\ drops # {},
              lastUp  |-> LastOf(Turns(tl, moves, "up")),
              stable  |-> first # None /\ LinkState(tl, moves) = "up" /\ drops = {}]
        ELSE [refused |-> TRUE, first |-> None]

(***************************************************************************)
(* summarize_run.  A refusal ends it; what was observed by then is kept,   *)
(* and the run is not eligible for the aggregate.                          *)
(***************************************************************************)
Unobserved == [os |-> None, ssh |-> None, carrier |-> None]

\* The SSH banner's time, from the timeline or else the metadata, and whether
\* the two disagree.
SshBanner(m, tl, start, end) ==
    LET seen  == FirstOf(Stamps(tl, Places(tl, "ssh_banner_ready", start, end)))
        noted == IF /\ m.readiness.ssh_banner >= start
                    /\ end = None \/ m.readiness.ssh_banner < end
                 THEN m.readiness.ssh_banner ELSE None
        clash == \/ m.network \notin {"none", "ssh_banner"} /\ {seen, noted} # {None}
                 \/ seen # None /\ noted \notin {None, seen}
    IN  [clash |-> clash,
         time  |-> IF clash THEN None
                   ELSE IF seen # None THEN seen
                   ELSE IF m.network = "ssh_banner" THEN noted ELSE None]

Issue(condition, name) == IF condition THEN {name} ELSE {}

\* Mutant of ErrorEvents: only the metadata's status is read.
ErrorEventsIgnored(tl, start, end) == FALSE

ErrorEvents(tl, start, end) == Places(tl, "error", start, end) # {}

SummarizeRun(m, tl) ==
    LET window  == ReferenceWindow(m, tl)
        start   == window.start
        chunks  == Places(tl, "uart_received", start, window.end)
        text    == Pieces(tl, chunks)
        second  == FirstOf({Stamp(tl, q) : q \in Restarts(tl, text)})
        end     == IF second = None THEN window.end ELSE second
        ssh     == SshBanner(m, tl, start, end)
        carrier == CarrierObservations(m, tl, start, end)
        status  == Issue(m.status \notin GoodStatuses, "capture_not_completed_cleanly")
        known   == status
                   \cup Issue(ErrorEvents(tl, start, window.end), "capture_error_event")
                   \cup Issue(m.supplyFault, "supply_fault")
        issues  == known
                   \cup Issue(second # None, "multiple_kernel_boots_in_reference_window")
                   \cup Issue(ssh.clash, "ssh_definition_or_timestamp_conflict")
                   \cup Issue(m.observed /\ carrier.refused, "carrier_refused")
    IN  IF window.refused
        THEN [issues |-> status \cup {"reference_refused"}, observations |-> Unobserved]
        ELSE IF UartGap(tl, chunks)
        THEN [issues |-> known \cup {"uart_capture_gap"}, observations |-> Unobserved]
        ELSE [issues |-> issues,
              observations |-> [os |-> MarkerTime(tl, FirstBoot(tl, text)), ssh |-> ssh.time,
                  carrier |-> IF m.observed THEN carrier.first ELSE None],
              link |-> carrier]

Eligible(report) == report.issues = {}
=============================================================================
