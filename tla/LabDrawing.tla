-------------------------------- MODULE LabDrawing --------------------------------
(***************************************************************************)
(* The drawing of a scenario's topology: its zones, the cards of its       *)
(* hosts, the lines between them and the snapshot students see.            *)
(*                                                                         *)
(* A discovery of the scenario's environment maps what Azure reports       *)
(* (azureDiscoveryProvider), places new cards (topologyLayout) and writes  *)
(* zones, cards and lines (discovery.service); the instructor draws, moves *)
(* and regroups (routes/admin/topology); publishing freezes the part       *)
(* students may see (topologyPublication). Every handler is one action:    *)
(* between its first write and its last nothing is awaited. What happens   *)
(* while Azure is asked is in Topology.                                    *)
(***************************************************************************)
EXTENDS Integers, FiniteSets, SequencesExt, FiniteSetsExt

CONSTANTS
    Inventories,       \* what Azure may report, see Reported
    MaxCard, MaxZone,  \* bounds on rowids
    Spots,             \* where the instructor may drop a card
    GridColumns, MaxRowWidth

VARIABLES
    zones,      \* [ZoneIds -> subnet, DrawnByHand or NoRow]
    cards,      \* [CardIds -> row or NoCard]
    lines,      \* [from, to, relation]: endpoints <<"node", id>> or <<"zone", id>>
    snapshot,   \* the published student view, or NoSnapshot
    arranged,   \* history: no card was placed, moved or regrouped since "auto-arrange"
    unframed,   \* history: zones the snapshot lost with their environment
    refused     \* history: why the last discovery was rolled back

drawing == <<zones, cards, lines>>
labVars == <<drawing, snapshot, arranged, unframed, refused>>

NoRow == "no row"
NoCard == [key |-> NoRow]
NoSnapshot == [zones |-> {NoRow}]
DrawnByHand == "by hand"
Unzoned == 0
ZoneIds == 1..MaxZone
CardIds == 1..MaxCard
ZoneRows == {z \in ZoneIds : zones[z] # NoRow}
CardRows == {c \in CardIds : cards[c] # NoCard}

\* An inventory: its subnets in order and its resources in order, each [key, kind, refs], every id once. The
\* refs of a vm are its nics, in order, those of a nic its subnets. An id is a path, never one of the marks.
Keys(inv) == {inv.resources[i].key : i \in DOMAIN inv.resources}
Reported(inv) ==
    /\ inv.subnets \in Seq(ToSet(inv.subnets)) /\ inv.resources \in Seq(ToSet(inv.resources))
    /\ \A i, j \in DOMAIN inv.subnets : inv.subnets[i] = inv.subnets[j] => i = j
    /\ \A i, j \in DOMAIN inv.resources : inv.resources[i].key = inv.resources[j].key => i = j
    /\ {NoRow, DrawnByHand} \cap (Keys(inv) \cup ToSet(inv.subnets)) = {}

ASSUME LabAssumption == MaxCard \in Nat /\ MaxZone \in Nat /\ \A inv \in Inventories : Reported(inv)

NextRow(rows) == IF rows = {} THEN 1 ELSE Max(rows) + 1

-----------------------------------------------------------------------------
(* Geometry (topologyLayout, and TopologyGraph for the frames)              *)

CardWidth == 176
CardHeight == 60
Padding == 36
LabelHeight == 30
GapX == 40
GapY == 30
ZoneGap == 140

Touch(p, q) ==
    /\ p.x < q.x + q.w /\ q.x < p.x + p.w
    /\ p.y < q.y + q.h /\ q.y < p.y + p.h

CardRect(c) == [x |-> cards[c].x, y |-> cards[c].y, w |-> CardWidth, h |-> CardHeight]

GridSlotOffset(i) == [x |-> (i % GridColumns) * (CardWidth + GapX), y |-> (i \div GridColumns) * (CardHeight + GapY)]

AtLeastOne(n) == IF n < 1 THEN 1 ELSE n
Columns(count) == AtLeastOne(IF count < GridColumns THEN count ELSE GridColumns)
Rows(count) == AtLeastOne((count + GridColumns - 1) \div GridColumns)

\* a place: where a zone's grid begins and how many of its slots are taken
ChromeRect(place) ==
    [x |-> place.x - Padding, y |-> place.y - Padding - LabelHeight,
     w |-> Columns(place.taken) * (CardWidth + GapX) - GapX + 2 * Padding,
     h |-> Rows(place.taken) * (CardHeight + GapY) - GapY + 2 * Padding + LabelHeight]

RowBelow(rects) == Max({r.y + r.h : r \in rects})

\* allocateZoneOrigin: to the right of the lowest row, or in a row of its own
AllocateZoneOrigin(rects, hint) ==
    IF rects = {} THEN [x |-> Padding, y |-> Padding + LabelHeight]
    ELSE LET rowY == Max({r.y : r \in rects})
             right == Max({r.x + r.w : r \in {q \in rects : q.y = rowY}})
             width == Columns(hint) * (CardWidth + GapX) - GapX + 2 * Padding
         IN  IF right + ZoneGap + width <= MaxRowWidth
             THEN [x |-> right + ZoneGap + Padding, y |-> rowY + Padding + LabelHeight]
             ELSE [x |-> Padding, y |-> RowBelow(rects) + ZoneGap + Padding + LabelHeight]

\* the planner: the place of every zone that has cards, the unzoned ones as zone 0
Planner(rows) ==
    LET of(z) == {c \in CardRows : cards[c].zone = z}
    IN  [z \in {cards[c].zone : c \in rows} |->
           [x |-> Min({cards[c].x : c \in of(z)}), y |-> Min({cards[c].y : c \in of(z)}), taken |-> Cardinality(of(z))]]

\* nextPosition: the planner afterwards, and where the card goes
NextPosition(planner, z, hint) ==
    LET origin == AllocateZoneOrigin({ChromeRect(planner[y]) : y \in DOMAIN planner}, hint)
        place == IF z \in DOMAIN planner THEN planner[z] ELSE [x |-> origin.x, y |-> origin.y, taken |-> 0]
        slot == GridSlotOffset(place.taken)
    IN  [planner |-> [y \in DOMAIN planner \cup {z} |-> IF y = z THEN [place EXCEPT !.taken = @ + 1] ELSE planner[y]],
         spot |-> <<place.x + slot.x, place.y + slot.y>>]

\* the spots of a sequence of [zone, hint], one after the other
SpotsFor(planner, new) ==
    FoldLeft(LAMBDA done, n :
               LET next == NextPosition(done.planner, n.zone, n.hint)
               IN  [planner |-> next.planner, spots |-> Append(done.spots, next.spot)],
             [planner |-> planner, spots |-> <<>>], new).spots

-----------------------------------------------------------------------------
(* What Azure reports, and what is made of it                               *)

Nics(inv) == {r \in ToSet(inv.resources) : r.kind = "nic"}

\* the subnet of a nic: the first of its ip configurations
SubnetOf(inv, key) == {r.refs[1] : r \in {n \in Nics(inv) : n.key = key /\ n.refs # <<>>}} \cap ToSet(inv.subnets)

\* mapAzureResourcesToDiscovery, second pass: a vm is in the zone of its first nic that has one
ZoneKeys(inv, r) ==
    IF r.kind = "nic" THEN SubnetOf(inv, r.key)
    ELSE IF r.kind # "vm" THEN {}
    ELSE LET zoned == {i \in DOMAIN r.refs : SubnetOf(inv, r.refs[i]) # {}}
         IN  IF zoned = {} THEN {} ELSE SubnetOf(inv, r.refs[Min(zoned)])

\* what is related to what; a relation to something that was not reported is dropped with a warning
Relations(inv) == UNION {{<<r.key, r.refs[i]>> : i \in DOMAIN r.refs} : r \in {v \in ToSet(inv.resources) : v.kind = "vm"}}
Related(inv) == {p \in Relations(inv) : p[2] \in Keys(inv)}
Clean(inv) == Relations(inv) = Related(inv)

-----------------------------------------------------------------------------
(* Cards, zones and lines, wherever they come from                          *)

NodeEnd(c) == <<"node", c>>
ZoneEnd(z) == <<"zone", z>>
Ends == {NodeEnd(c) : c \in CardRows} \cup {ZoneEnd(z) : z \in ZoneRows}
Touching(ends) == {l \in lines : l.from \in ends \/ l.to \in ends}

WithoutCards(gone) == [c \in CardIds |-> IF c \in gone THEN NoCard ELSE cards[c]]
\* UPDATE topology_nodes SET zone_id = NULL: the hosts of a zone that goes stay, unzoned
OutOf(gone, rows) == [c \in CardIds |-> IF rows[c] # NoCard /\ rows[c].zone \in gone
                                        THEN [rows[c] EXCEPT !.zone = Unzoned] ELSE rows[c]]
WithoutZones(gone) == [z \in ZoneIds |-> IF z \in gone THEN NoRow ELSE zones[z]]

-----------------------------------------------------------------------------
(* Discovery                                                                *)

\* The rows of a table with entries, a function of positions, inserted in their order: sqlite gives each the
\* rowid after the last.
RowFor(rows, new, i) == NextRow(rows) + Cardinality({k \in new : k < i})
Inserted(table, rows, entries) ==
    LET new == DOMAIN entries
    IN  [r \in DOMAIN table |-> IF \E i \in new : RowFor(rows, new, i) = r
                               THEN entries[CHOOSE i \in new : RowFor(rows, new, i) = r] ELSE table[r]]

NewSubnets(inv) == {i \in DOMAIN inv.subnets : \A z \in ZoneIds : zones[z] # inv.subnets[i]}
ZonesWith(inv) == Inserted(zones, ZoneRows, [i \in NewSubnets(inv) |-> inv.subnets[i]])

FoundCards == {c \in CardRows : cards[c].key # DrawnByHand}
FoundZones == {z \in ZoneRows : zones[z] # DrawnByHand}
IsNew(r) == \A c \in FoundCards : cards[c].key # r.key
NewResources(inv) == {i \in DOMAIN inv.resources : IsNew(inv.resources[i])}

\* upsertForCyberRange: new resources get a spot and what Azure and its type say of them; what the
\* instructor may have changed on a row that is there is left alone
Upsert(inv) ==
    LET rows == ZonesWith(inv)
        zoneOf(r) == Max({Unzoned} \cup {z \in ZoneIds : rows[z] \in ZoneKeys(inv, r)})
        new == NewResources(inv)
        hint(z) == Cardinality({i \in new : zoneOf(inv.resources[i]) = z})
        toPlace == SelectSeq(inv.resources, IsNew)
        spots == SpotsFor(Planner(CardRows),
                          [k \in DOMAIN toPlace |-> [zone |-> zoneOf(toPlace[k]), hint |-> hint(zoneOf(toPlace[k]))]])
        spot(i) == spots[1 + Cardinality({k \in new : k < i})]
    IN  [zones |-> rows,
         cards |-> Inserted(cards, CardRows,
                     [i \in new |-> [key |-> inv.resources[i].key, zone |-> zoneOf(inv.resources[i]),
                                     x |-> spot(i)[1], y |-> spot(i)[2], shown |-> inv.resources[i].kind = "vm"]])]

\* the rows after upsertForCyberRange written and, after a discovery without warnings, pruneStale, in one
\* transaction
WriteAndPrune(inv, up) ==
    LET staleCards == IF Clean(inv) THEN {c \in FoundCards : cards[c].key \notin Keys(inv)} ELSE {}
        staleZones == IF Clean(inv) THEN {z \in FoundZones : zones[z] \notin ToSet(inv.subnets)} ELSE {}
        cardOf(key) == CHOOSE c \in CardIds : up.cards[c] # NoCard /\ up.cards[c].key = key
        found == {[from |-> NodeEnd(cardOf(p[1])), to |-> NodeEnd(cardOf(p[2])), by |-> "azure"] : p \in Related(inv)}
        kept == IF Clean(inv) THEN {l \in lines : l.by = "hand"} ELSE lines
        blocking(ends) == {l \in kept : l.from \in ends \/ l.to \in ends}
    IN  /\ NextRow(CardRows) + Cardinality(NewResources(inv)) <= MaxCard + 1
        /\ NextRow(ZoneRows) + Cardinality(NewSubnets(inv)) <= MaxZone + 1
        /\ IF blocking({NodeEnd(c) : c \in staleCards} \cup {ZoneEnd(z) : z \in staleZones}) # {}
           THEN \* a foreign key: ROLLBACK, the run has failed
                /\ refused' = IF blocking({NodeEnd(c) : c \in staleCards}) # {} THEN "card" ELSE "zone"
                /\ UNCHANGED <<drawing, snapshot, arranged, unframed>>
           ELSE /\ zones' = [z \in ZoneIds |-> IF z \in staleZones THEN NoRow ELSE up.zones[z]]
                /\ cards' = OutOf(staleZones, [c \in CardIds |-> IF c \in staleCards THEN NoCard ELSE up.cards[c]])
                /\ lines' = kept \cup found
                /\ arranged' = IF CardRows = {} THEN "by discovery"
                               ELSE IF NewResources(inv) # {} THEN "no" ELSE arranged
                /\ refused' = "no"
                /\ UNCHANGED <<snapshot, unframed>>

Discover(inv) == \E up \in {Upsert(inv)} : WriteAndPrune(inv, up)

-----------------------------------------------------------------------------
(* The instructor                                                           *)

Redrawn(zs, cs, ls) ==
    /\ zones' = zs /\ cards' = cs /\ lines' = ls
    /\ UNCHANGED <<snapshot, unframed, refused>>
Disarranges == arranged' = "no"
StaysArranged == UNCHANGED arranged

AddNode(z) ==
    LET spot == NextPosition(Planner(CardRows), z, 1).spot
        c == NextRow(CardRows)
    IN  /\ c <= MaxCard
        /\ Disarranges
        /\ Redrawn(zones, [cards EXCEPT ![c] = [key |-> DrawnByHand, zone |-> z, x |-> spot[1], y |-> spot[2],
                                                shown |-> TRUE]], lines)

MoveNode(c, spot) == Disarranges /\ Redrawn(zones, [cards EXCEPT ![c].x = spot[1], ![c].y = spot[2]], lines)
\* a card cannot be taken out of its zone again, only the zone away
PlaceInZone(c, z) == Disarranges /\ Redrawn(zones, [cards EXCEPT ![c].zone = z], lines)
ShowOrHideNode(c) == StaysArranged /\ Redrawn(zones, [cards EXCEPT ![c].shown = ~@], lines)
DeleteNode(c) == StaysArranged /\ Redrawn(zones, WithoutCards({c}), lines \ Touching({NodeEnd(c)}))

AddZone ==
    /\ NextRow(ZoneRows) <= MaxZone
    /\ StaysArranged
    /\ Redrawn([zones EXCEPT ![NextRow(ZoneRows)] = DrawnByHand], cards, lines)

DeleteZone(z) == StaysArranged /\ Redrawn(WithoutZones({z}), OutOf({z}, cards), lines \ Touching({ZoneEnd(z)}))

AddEdge(from, to) ==
    /\ StaysArranged
    /\ Redrawn(zones, cards, lines \cup {[from |-> from, to |-> to, by |-> "hand"]})
DeleteEdge(l) == StaysArranged /\ Redrawn(zones, cards, lines \ {l})

\* Mutant: the new layout slots in around the old one.
StartingPlaces_Current == Planner(CardRows)
\* fromScratch
StartingPlaces == <<>>

MembersInOrder(members) ==
    SetToSortSeq(members, LAMBDA c, d : IF cards[c].shown = cards[d].shown THEN c < d ELSE cards[c].shown)

\* zone after zone in their order, the unzoned cards last; in each, what students see first
AutoLayout(order) ==
    LET groups == Append(order, Unzoned)
        members(z) == MembersInOrder({c \in CardRows : cards[c].zone = z})
        sequence == FoldLeft(LAMBDA seq, z : seq \o members(z), <<>>, groups)
        spots == SpotsFor(StartingPlaces, [i \in DOMAIN sequence |->
                   [zone |-> cards[sequence[i]].zone, hint |-> Len(members(cards[sequence[i]].zone))]])
        at(c) == CHOOSE i \in DOMAIN sequence : sequence[i] = c
    IN  /\ arranged' = "by instructor"
        /\ Redrawn(zones, [c \in CardIds |-> IF c \in CardRows
                                           THEN [cards[c] EXCEPT !.x = spots[at(c)][1], !.y = spots[at(c)][2]]
                                           ELSE NoCard], lines)

\* Mutant: lines to hidden hosts are published.
StudentView_AllLines ==
    [zones |-> ZoneRows,
     zoneOf |-> [c \in {d \in CardRows : cards[d].shown} |-> cards[c].zone],
     lines |-> lines]

\* buildStudentView
StudentView ==
    [zones |-> ZoneRows,
     zoneOf |-> [c \in {d \in CardRows : cards[d].shown} |-> cards[c].zone],
     lines |-> lines \ Touching({NodeEnd(c) : c \in {d \in CardRows : ~cards[d].shown}})]

PublishDrawing ==
    /\ snapshot' = StudentView
    /\ unframed' = {}
    /\ UNCHANGED <<drawing, arranged, refused>>

\* deleteEnvironment, of its drawing: all that it found goes, lines drawn by hand to it included,
\* from the snapshot too
DeleteEnvironment ==
    LET ends == {NodeEnd(c) : c \in FoundCards} \cup {ZoneEnd(z) : z \in FoundZones}
        gone == Touching(ends) \cup {l \in lines : l.by = "azure"}
    IN  /\ ends # {}
        /\ zones' = WithoutZones(FoundZones)
        /\ cards' = OutOf(FoundZones, WithoutCards(FoundCards))
        /\ lines' = lines \ gone
        /\ snapshot' = IF snapshot = NoSnapshot THEN NoSnapshot
                       ELSE [zones |-> snapshot.zones \ FoundZones,
                             zoneOf |-> [c \in DOMAIN snapshot.zoneOf \ FoundCards |-> snapshot.zoneOf[c]],
                             lines |-> {l \in snapshot.lines : l.from \notin ends /\ l.to \notin ends}]
        /\ unframed' = IF snapshot = NoSnapshot THEN {} ELSE unframed \cup FoundZones
        /\ UNCHANGED <<arranged, refused>>

-----------------------------------------------------------------------------

LabInit ==
    /\ zones = [z \in ZoneIds |-> NoRow] /\ cards = [c \in CardIds |-> NoCard] /\ lines = {}
    /\ snapshot = NoSnapshot /\ arranged = "no" /\ unframed = {} /\ refused = "no"

Discovering == \E inv \in Inventories : Discover(inv)

\* which cards and zones there are
Drawing ==
    \/ \E z \in ZoneRows \cup {Unzoned} : AddNode(z)
    \/ \E c \in CardRows : ShowOrHideNode(c) \/ DeleteNode(c) \/ \E z \in ZoneRows : PlaceInZone(c, z)
    \/ AddZone \/ \E z \in ZoneRows : DeleteZone(z)

\* where they are
Arranging ==
    \/ \E c \in CardRows, spot \in Spots : MoveNode(c, spot)
    \/ \E order \in SetToSeqs(ZoneRows) : AutoLayout(order)

\* what refers to them
Referring ==
    \/ \E from, to \in Ends : AddEdge(from, to)
    \/ \E l \in lines : DeleteEdge(l)
    \/ PublishDrawing \/ DeleteEnvironment

LabNext == Discovering \/ Drawing \/ Arranging \/ Referring

LabSpec == LabInit /\ [][LabNext]_labVars

-----------------------------------------------------------------------------
(* Properties                                                               *)

\* Nothing drawn or published refers to something that is not there: the ends of a line and the zone
\* of a card are rows (a delete that left one would be refused by its foreign key), and the snapshot
\* holds what its own lines and cards name, except the zones it lost with their environment.
Whole ==
    /\ \A l \in lines : {l.from, l.to} \subseteq Ends
    /\ \A c \in CardRows : cards[c].zone \in ZoneRows \cup {Unzoned}
DrawingsAreWhole ==
    /\ Whole
    /\ snapshot # NoSnapshot =>
         /\ \A l \in snapshot.lines : {l.from, l.to} \subseteq {NodeEnd(c) : c \in DOMAIN snapshot.zoneOf}
                                                               \cup {ZoneEnd(z) : z \in snapshot.zones}
         /\ \A c \in DOMAIN snapshot.zoneOf : snapshot.zoneOf[c] \in snapshot.zones \cup {Unzoned} \cup unframed

\* zoneRects: the frame of a zone that has cards in a view
FrameOf(z, view) ==
    LET xs == {cards[c].x : c \in {d \in view : cards[d].zone = z}}
        ys == {cards[c].y : c \in {d \in view : cards[d].zone = z}}
    IN  [x |-> Min(xs) - Padding, y |-> Min(ys) - Padding - LabelHeight,
         w |-> Max(xs) + CardWidth - Min(xs) + 2 * Padding,
         h |-> Max(ys) + CardHeight - Min(ys) + 2 * Padding + LabelHeight]
Framed(view) == {z \in ZoneRows : \E c \in view : cards[c].zone = z}
Views == {CardRows, {c \in CardRows : cards[c].shown}}

Apart ==
    /\ \A c, d \in CardRows : c # d => ~Touch(CardRect(c), CardRect(d))
    /\ \A view \in Views :
         /\ \A y, z \in Framed(view) : y # z => ~Touch(FrameOf(y, view), FrameOf(z, view))
         /\ \A z \in Framed(view), c \in view :
              cards[c].zone \notin {z, Unzoned} => ~Touch(FrameOf(z, view), CardRect(c))

\* After "auto-arrange" no card lies on another, no zone's frame touches another's or another zone's card,
\* with hidden hosts drawn or not, whatever is hidden, deleted or ungrouped since, until a card is
\* placed, moved or regrouped (topologyLayout: "two zones' padded chrome boxes can never touch").
ArrangedCardsStayApart == arranged = "by instructor" => Apart
=============================================================================
