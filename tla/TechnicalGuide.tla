--------------------------- MODULE TechnicalGuide ---------------------------
(***************************************************************************)
(* The tool get_technical_guide with agents/research.py and                 *)
(* parsing/tech_guide.py: the guide is a frameset whose table and date are  *)
(* two pages, and COL may publish a new edition between the two requests.   *)
(*                                                                         *)
(* An edition is the number of publications before it.  A row of the table  *)
(* is abstracted to what the filters and the grouping look at; the short-   *)
(* and the medium-term level are read alike and one stands for both.        *)
(***************************************************************************)
EXTENDS Cells, FiniteSetsExt, Sequences

CONSTANTS
    Tickers,
    Sectors,
    Ratings,       \* the recommendations of the guide
    GuideTables,   \* the tables COL may answer with
    MaxEditions    \* bound: editions published

\* A separator spans its row and has a label or is blank; an entry may lack a
\* rating, and its level may be a dash in a coloured font.
GuideRows == [kind : {"separator", "entry", "other"},
              sector : Sectors \cup {None},
              ticker : Tickers \cup {None},
              rating : Ratings \cup {None},
              level : Decimals,
              colour : Colours \cup {None}]

ASSUME GuideAssumption ==
    /\ GuideTables \subseteq Seq(GuideRows)
    /\ MaxEditions \in Nat

Queries == [by : {"symbol"}, of : Tickers] \cup [by : {"rating"}, of : Ratings]
               \cup [by : {"nothing"}, of : {None}]

VARIABLES
    edition,    \* the one COL shows
    newer,      \* published since the call began (history variable)
    guide,      \* where the call is
    query,
    frame,      \* requests made
    table, tableEdition,
    guideRow,   \* rows of the table that are read
    sector,
    guideEntries,
    asOf,
    listing     \* the answer: entries under each heading of it

guideVars == <<edition, newer, guide, query, frame, table, tableEdition, guideRow, sector,
               guideEntries, asOf, listing>>

GuideInit ==
    /\ edition = 0 /\ newer = FALSE
    /\ guide = "idle" /\ query = [by |-> "nothing", of |-> None] /\ frame = 0
    /\ table = <<>> /\ tableEdition = 0 /\ guideRow = 0 /\ sector = None
    /\ guideEntries = <<>> /\ asOf = None
    /\ listing = {}

-----------------------------------------------------------------------------
\* Mutation: the date is fetched before the table.
FramesDateFirst == <<"date", "table">>

\* The order of the requests.
Frames == <<"table", "date">>

\* The next request, or the answer when both frames are there.
Goes(to) == guide' = IF to > Len(Frames) THEN "answer" ELSE Frames[to]

GetTechnicalGuide ==
    /\ guide = "idle"
    /\ query' \in Queries
    /\ frame' = 1
    /\ Goes(1)
    /\ UNCHANGED <<edition, newer, table, tableEdition, guideRow, sector, guideEntries, asOf, listing>>

\* The session has expired, or the request failed: there is no answer.
GuideFetchRaises ==
    /\ guide \in {"table", "date"}
    /\ guide' = "raised"
    /\ UNCHANGED <<edition, newer, query, frame, table, tableEdition, guideRow, sector,
                   guideEntries, asOf, listing>>

FetchTable ==
    /\ guide = "table"
    /\ table' \in GuideTables
    /\ tableEdition' = edition
    /\ guide' = "rows"
    /\ UNCHANGED <<edition, newer, query, frame, guideRow, sector, guideEntries, asOf, listing>>

\* The next row of the table is of this kind.
ReadGuideRow(kind) ==
    /\ guide = "rows"
    /\ guideRow < Len(table)
    /\ table[guideRow + 1].kind = kind
    /\ guideRow' = guideRow + 1
    /\ UNCHANGED <<edition, newer, guide, query, frame, table, tableEdition, asOf, listing>>

\* Mutation: a blank separator ends the sector.
ReadSeparatorBlank ==
    /\ ReadGuideRow("separator")
    /\ sector' = table[guideRow + 1].sector
    /\ UNCHANGED guideEntries

\* A separator without a label leaves the sector as it is.
ReadSeparator ==
    /\ ReadGuideRow("separator")
    /\ LET label == table[guideRow + 1].sector
       IN  sector' = IF label = None THEN sector ELSE label
    /\ UNCHANGED guideEntries

\* The role of a level, from the colour of the first font of its cell that has one.
LevelRole(r) ==
    IF r.level = None \/ r.colour = None THEN None
    ELSE IF r.colour = "red" THEN "resistance" ELSE "support"

ReadEntry ==
    /\ ReadGuideRow("entry")
    /\ LET r == table[guideRow + 1]
       IN  guideEntries' = Append(guideEntries,
               [row |-> guideRow + 1, ticker |-> r.ticker, rating |-> r.rating,
                sector |-> sector, level |-> r.level, role |-> LevelRole(r)])
    /\ UNCHANGED sector

SkipGuideRow ==
    /\ ReadGuideRow("other")
    /\ UNCHANGED <<sector, guideEntries>>

\* A table without entries is a page in the middle of being published.
EndRows ==
    /\ guide = "rows"
    /\ guideRow = Len(table)
    /\ frame' = frame + 1
    /\ IF guideEntries = <<>> THEN guide' = "raised" ELSE Goes(frame + 1)
    /\ UNCHANGED <<edition, newer, query, table, tableEdition, guideRow, sector,
                   guideEntries, asOf, listing>>

\* The header may also come without a date.
FetchDate ==
    /\ guide = "date"
    /\ asOf' \in {edition, None}
    /\ frame' = frame + 1
    /\ Goes(frame + 1)
    /\ UNCHANGED <<edition, newer, query, table, tableEdition, guideRow, sector,
                   guideEntries, listing>>

Heading(e) == IF e.rating = None THEN "?" ELSE e.rating

\* The entries at these places, in the order of the guide.
Picked(places) ==
    LET at == InOrder(places, Len(guideEntries))
    IN  [k \in DOMAIN at |-> guideEntries[at[k]]]

\* A symbol: its first entry, or none.  A rating: the entries rated so.  Without
\* either, the tickers of all entries under their ratings.
ListingAsked ==
    LET found == {k \in DOMAIN guideEntries : guideEntries[k].ticker = query.of}
        rated == {k \in DOMAIN guideEntries : guideEntries[k].rating = query.of}
        under(h) == {k \in DOMAIN guideEntries : Heading(guideEntries[k]) = h}
    IN  CASE query.by = "symbol" -> {<<query.of, Picked(IF found = {} THEN {} ELSE {Min(found)})>>}
          [] query.by = "rating" -> {<<query.of, Picked(rated)>>}
          [] OTHER -> {<<h, Picked(under(h))>> :
                           h \in {Heading(guideEntries[k]) : k \in DOMAIN guideEntries}}

AnswerQuery ==
    /\ guide = "answer"
    /\ guide' = "done"
    /\ listing' = ListingAsked
    /\ UNCHANGED <<edition, newer, query, frame, table, tableEdition, guideRow, sector,
                   guideEntries, asOf>>

\* COL publishes the next edition.
Publish ==
    /\ edition < MaxEditions
    /\ edition' = edition + 1
    /\ newer' = (guide # "idle")
    /\ UNCHANGED <<guide, query, frame, table, tableEdition, guideRow, sector,
                   guideEntries, asOf, listing>>

GuideNext ==
    \/ GetTechnicalGuide \/ GuideFetchRaises
    \/ FetchTable \/ ReadSeparator \/ ReadEntry \/ SkipGuideRow \/ EndRows
    \/ FetchDate \/ AnswerQuery
    \/ Publish

GuideSpec == GuideInit /\ [][GuideNext]_guideVars

-----------------------------------------------------------------------------
\* The date an answer is given under is never older than its rows, and it is
\* theirs unless a new edition was published while the two frames were fetched:
\* nobody is told that a recommendation is staler than it is.
DateNeverOlder ==
    guide = "done" /\ asOf # None =>
        /\ asOf >= tableEdition
        /\ ~ newer => asOf = tableEdition

\* The sector a row of the table is in.
LabelsAbove(i) == {j \in 1 .. i - 1 : table[j].kind = "separator" /\ table[j].sector # None}
SectorAt(i) == IF LabelsAbove(i) = {} THEN None ELSE table[Max(LabelsAbove(i))].sector

EntryRows == {i \in DOMAIN table : table[i].kind = "entry"}

\* Row i is answered under heading h.
Under(h, i) == \E g \in listing : g[1] = h /\ \E k \in DOMAIN g[2] : g[2][k].row = i

\* The answer is the table's: the first entry of a ticker, and none only when the
\* table has none; every entry of a rating; every entry of the guide, under one
\* heading.  Each is given once and in the order of the table, with the last label
\* above it, and with a role only next to a level.
ListingRight ==
    guide = "done" =>
        /\ \A i \in EntryRows :
               /\ query.by = "symbol" =>
                      (Under(query.of, i) <=>
                           /\ table[i].ticker = query.of
                           /\ \A j \in EntryRows : table[j].ticker = query.of => i <= j)
               /\ query.by = "rating" => (Under(query.of, i) <=> table[i].rating = query.of)
               /\ query.by = "nothing" =>
                      \A h \in Ratings \cup {"?"} : Under(h, i) <=> h = Heading(table[i])
        /\ \A g \in listing : \A k \in DOMAIN g[2] :
               LET e == g[2][k]
               IN  /\ e.row \in EntryRows
                   /\ e.sector = SectorAt(e.row) /\ (e.role # None => e.level # None)
                   /\ \A l \in DOMAIN g[2] : k < l => e.row < g[2][l].row
=============================================================================
