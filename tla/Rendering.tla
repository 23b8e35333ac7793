------------------------------- MODULE Rendering -------------------------------
(***************************************************************************)
(* Managed cron artefacts as text (adapters/schedulers/cron/rendering.py).  *)
(*                                                                          *)
(* A text is a sequence of lines.  A line is one of the markers TaskControl *)
(* writes, the entry between them, or a plain line of somebody else; what   *)
(* else the markers and entries say (schedule, user, command, description)  *)
(* is a function of the revision and left out.  A marker that is spelled    *)
(* differently is a plain line, as it is for the regular expressions.       *)
(***************************************************************************)
EXTENDS SequencesExt

Marks == {"begin", "end", "block_begin", "block_end", "member", "entry",
          "notice", "shebang", "plain"}

Line(mark, slug, task, rev) ==
    [mark |-> mark, slug |-> slug, task |-> task, rev |-> rev]

BlockBegin == Line("block_begin", "", "", "")
BlockEnd == Line("block_end", "", "", "")
Notice == Line("notice", "", "", "")
Plain(name) == Line("plain", name, "", "")

\* An artefact is rendered from the slug, the task and the revision.
Entry(a) == Line("entry", a.slug, a.task, a.rev)
EndMarker(slug) == Line("end", slug, "", "")
RenderRegion(a) ==
    <<Line("begin", a.slug, a.task, a.rev), Entry(a), EndMarker(a.slug)>>
RenderMember(a) == <<Line("member", a.slug, a.task, a.rev), Entry(a)>>
RenderCronD(a) ==
    <<Line("begin", a.slug, a.task, a.rev), Notice, Entry(a), EndMarker(a.slug)>>
RenderRunParts(a) == <<Line("shebang", "", "", "")>> \o RenderCronD(a)

-----------------------------------------------------------------------------
\* Reading: regions.

\* The elements of a sequence that are in S, in order.
Chosen(seq, S) ==
    LET chosen[n \in 0..Len(seq)] ==
            IF n = 0 THEN <<>>
            ELSE IF seq[n] \in S THEN Append(chosen[n - 1], seq[n])
            ELSE chosen[n - 1]
    IN chosen[Len(seq)]

At(text, marks) == {i \in DOMAIN text : text[i].mark \in marks}

\* The markers of regions in order: every begin is followed by the end of the
\* same slug, every end follows a begin, and no task has two regions.
Following(text, i) == {j \in At(text, {"begin", "end"}) : j > i}
Preceding(text, i) == {j \in At(text, {"begin", "end"}) : j < i}

Closed(text, i) ==
    /\ Following(text, i) # {}
    /\ LET next == text[Min(Following(text, i))]
       IN next.mark = "end" /\ next.slug = text[i].slug

Opened(text, i) ==
    /\ Preceding(text, i) # {}
    /\ text[Max(Preceding(text, i))].mark = "begin"

RegionsReadable(text) ==
    LET begins == At(text, {"begin"})
    IN /\ \A i \in begins : Closed(text, i)
       /\ \A i \in At(text, {"end"}) : Opened(text, i)
       /\ \A i, j \in begins : text[i].task = text[j].task => i = j

\* Only of a readable text.
FindManagedRegions(text) ==
    {[slug |-> text[i].slug, task |-> text[i].task, start |-> i,
      stop |-> Min(Following(text, i))] : i \in At(text, {"begin"})}

\* The first region of a slug.
RegionOf(text, slug) ==
    CHOOSE r \in FindManagedRegions(text) :
        /\ r.slug = slug
        /\ \A q \in FindManagedRegions(text) :
               q.slug = slug => r.start <= q.start

HasRegion(text, slug) == \E r \in FindManagedRegions(text) : r.slug = slug
Piece(text, r) == SubSeq(text, r.start, r.stop)

\* Off by one: the end marker of the old region stays.
SpliceSlip(text, r, lines) ==
    SubSeq(text, 1, r.start - 1) \o lines \o SubSeq(text, r.stop, Len(text))

\* The text with the lines of r replaced.
Splice(text, r, lines) ==
    SubSeq(text, 1, r.start - 1) \o lines \o SubSeq(text, r.stop + 1, Len(text))

ReplaceRegion(text, slug, rendered) ==
    IF HasRegion(text, slug)
    THEN Splice(text, RegionOf(text, slug), rendered)
    ELSE text \o rendered

RemoveRegion(text, slug) ==
    IF HasRegion(text, slug) THEN Splice(text, RegionOf(text, slug), <<>>)
    ELSE text

-----------------------------------------------------------------------------
\* Reading: the single block.

HasBlock(text) == At(text, {"block_begin"}) # {}

\* At most one begin marker, every end marker after it, and an end marker.
BlockClosed(text) ==
    LET begins == At(text, {"block_begin"})
        ends == At(text, {"block_end"})
    IN /\ Cardinality(begins) <= 1
       /\ \A j \in ends : \E i \in begins : i < j
       /\ begins # {} => ends # {}

\* The last end marker is taken.
BlockBounds(text) ==
    [start |-> Min(At(text, {"block_begin"})),
     stop |-> Max(At(text, {"block_end"}))]

\* A member reaches to the next member or to the end of the block.
FindBlockMembers(text) ==
    IF ~HasBlock(text) THEN {} ELSE
    LET bounds == BlockBounds(text)
        heads == {i \in At(text, {"member"}) :
                      bounds.start < i /\ i < bounds.stop}
    IN {[slug |-> text[i].slug, task |-> text[i].task, start |-> i,
         stop |-> Min({j \in heads : j > i} \cup {bounds.stop}) - 1] :
        i \in heads}

BlockReadable(text) ==
    /\ BlockClosed(text)
    /\ \A m, n \in FindBlockMembers(text) : m.task = n.task => m = n

HasMember(text, slug) == \E m \in FindBlockMembers(text) : m.slug = slug

\* The positions in S, in order.
InOrder(text, S) == Chosen([i \in 1..Len(text) |-> i], S)

\* Some members of a block, in order.
Pieces(text, members) ==
    LET starts == InOrder(text, {m.start : m \in members})
    IN [n \in DOMAIN starts |->
           Piece(text, CHOOSE m \in members : m.start = starts[n])]
Block(entries) == <<BlockBegin, Notice>> \o FlattenSeq(entries) \o <<BlockEnd>>

\* The block is written anew; lines in front of its first member are lost.
RewriteBlock(text, entries) == Splice(text, BlockBounds(text), Block(entries))

\* The block is written from what the caller knows about.
UpsertBlockMemberSlip(text, slug, member) ==
    IF ~HasBlock(text) THEN text \o Block(<<member>>)
    ELSE RewriteBlock(text, <<member>>)

UpsertBlockMember(text, slug, member) ==
    IF ~HasBlock(text) THEN text \o Block(<<member>>) ELSE
    LET old == Pieces(text, FindBlockMembers(text))
        kept == [n \in DOMAIN old |->
                    IF Head(old[n]).slug = slug THEN member ELSE old[n]]
    IN RewriteBlock(text, IF HasMember(text, slug) THEN kept
                          ELSE Append(kept, member))

\* Removing the last member removes the block.
RemoveBlockMember(text, slug) ==
    IF ~HasBlock(text) THEN text ELSE
    LET left == {m \in FindBlockMembers(text) : m.slug # slug}
    IN IF left = {} THEN Splice(text, BlockBounds(text), <<>>)
       ELSE RewriteBlock(text, Pieces(text, left))

-----------------------------------------------------------------------------
\* What is TaskControl's, and what is not.

Readable(text) == RegionsReadable(text) /\ BlockReadable(text)

\* No region reaches into the block or around it.
Apart(text) ==
    Readable(text) /\ HasBlock(text) =>
        LET block == BlockBounds(text)
        IN \A r \in FindManagedRegions(text) :
               r.stop < block.start \/ block.stop < r.start

\* The identities on record in a text.
Held(text) ==
    {[slug |-> r.slug, task |-> r.task] :
     r \in FindManagedRegions(text) \cup FindBlockMembers(text)}

Managed(text) ==
    LET pieces == FindManagedRegions(text)
                    \cup (IF HasBlock(text) THEN {BlockBounds(text)} ELSE {})
    IN UNION {r.start..r.stop : r \in pieces}

\* The lines that belong to somebody else, in their order.
Unmanaged(text) ==
    IF ~Readable(text) THEN text
    ELSE LET others == InOrder(text, DOMAIN text \ Managed(text))
         IN [n \in DOMAIN others |-> text[others[n]]]
=============================================================================
