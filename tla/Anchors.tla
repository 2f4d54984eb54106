------------------------------- MODULE Anchors -------------------------------
(***************************************************************************)
(* Anchors: the documents known by their addresses, the named places in    *)
(* them, and the links from one to another.                                *)
(* src/Library/Implementation/HTAnchor.c                                   *)
(*                                                                         *)
(* An anchor is its number in memory, 0 is NULL; a parent is its own       *)
(* parent.  A list has its newest object first.  An address is a document  *)
(* and a tag, Void if there is none.                                       *)
(***************************************************************************)
EXTENDS Integers, SequencesExt, FiniteSetsExt

CONSTANTS
    Doc,          \* addresses of documents
    Tag,          \* names of places in a document
    LinkType,     \* kinds of links
    Void,         \* no tag, or no document in a reference
    TOUPPER,      \* of documents and tags: what two spellings have in common
    Hash,         \* the list of adult_table that an address belongs to
    HTSimplify,   \* what becomes of an address
    HTImProxy     \* whether addresses have been simplified before

VARIABLES
    adult_table,  \* lists of parents, by hash
    anchors       \* the anchors that were created

equivalent(s, t) == TOUPPER[s] = TOUPPER[t]

NoLink == [dest |-> 0, type |-> Void]
Heap == [table |-> adult_table, anchors |-> anchors]

Child(parent, tag) ==
    [parent |-> parent, address |-> Void, tag |-> tag, children |-> <<>>, sources |-> <<>>,
     mainLink |-> NoLink, links |-> <<>>]

Parent(me, address) == [Child(me, Void) EXCEPT !.address = address]

\* The first of a list for which Test holds, 0 if there is none.
First(list, Test(_)) ==
    LET k == SelectInSeq(list, Test) IN IF k = 0 THEN 0 ELSE list[k]

\* A child of that name, or a new one; one without a name is always new.
HTAnchor_findChild(h, parent, tag) ==
    LET child == First(h.anchors[parent].children,
                       LAMBDA c : equivalent(h.anchors[c].tag, tag))
        new == Len(h.anchors) + 1 IN
    IF tag # Void /\ child # 0 THEN [h |-> h, anchor |-> child]
    ELSE [h |-> [h EXCEPT !.anchors =
                   Append([@ EXCEPT ![parent].children = <<new>> \o @], Child(parent, tag))],
          anchor |-> new]

\* The document is looked for as it is spelled, and kept simplified.
FindDocument(h, doc) ==
    LET found == First(h.table[Hash[doc]],
                       LAMBDA a : equivalent(h.anchors[a].address, doc))
        new == Len(h.anchors) + 1 IN
    IF found # 0 THEN [h |-> h, anchor |-> found]
    ELSE [h |-> [table |-> [h.table EXCEPT ![Hash[doc]] = <<new>> \o @],
                 anchors |-> Append(h.anchors,
                                    Parent(new, IF HTImProxy THEN doc ELSE HTSimplify[doc]))],
          anchor |-> new]

HTAnchor_findAddress(h, address) ==
    LET parent == FindDocument(h, address.doc) IN
    IF address.tag = Void THEN parent
    ELSE HTAnchor_findChild(parent.h, parent.anchor, address.tag)

\* An unnamed child has its parent's address.
HTAnchor_address(h, me) ==
    [doc |-> h.anchors[h.anchors[me].parent].address, tag |-> h.anchors[me].tag]

AddSource(as, destination, source) ==
    [as EXCEPT ![as[destination].parent].sources = <<source>> \o @]

HTAnchor_link(h, source, destination, type) ==
    LET link == [dest |-> destination, type |-> type]
        linked == IF h.anchors[source].mainLink.dest = 0
                  THEN [h.anchors EXCEPT ![source].mainLink = link]
                  ELSE [h.anchors EXCEPT ![source].links = <<link>> \o @] IN
    [h EXCEPT !.anchors = AddSource(linked, destination, source)]

\* A reference without a document is to a place in this one.
HTAnchor_findChildAndLink(h, parent, tag, href, type) ==
    LET child == HTAnchor_findChild(h, parent, tag)
        doc == IF href.doc = Void THEN HTAnchor_address(h, parent).doc ELSE href.doc
        dest == HTAnchor_findAddress(child.h, [doc |-> doc, tag |-> href.tag]) IN
    IF href = [doc |-> Void, tag |-> Void] THEN child.h
    ELSE HTAnchor_link(dest.h, child.anchor, dest.anchor, type)

HTAnchor_makeLastChild(h, me) ==
    LET parent == h.anchors[me].parent IN
    IF parent = me THEN h
    ELSE [h EXCEPT !.anchors[parent].children = <<me>> \o SelectSeq(@, LAMBDA c : c # me)]

HTAnchor_followTypedLink(h, me, type) ==
    LET a == h.anchors[me]
        k == SelectInSeq(a.links, LAMBDA link : link.type = type) IN
    IF a.mainLink.type = type THEN a.mainLink.dest
    ELSE IF k = 0 THEN 0 ELSE a.links[k].dest

\* The k-th link changes places with the main one, which becomes the first.
HTAnchor_makeMainLink(h, me, k) ==
    LET a == h.anchors[me] IN
    [h EXCEPT !.anchors[me].links = <<a.mainLink>> \o RemoveAt(@, k),
              !.anchors[me].mainLink = a.links[k]]

=============================================================================
