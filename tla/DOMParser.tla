------------------------------ MODULE DOMParser -----------------------------
(***************************************************************************)
(* How an MPD file becomes a tree of nodes (DOMParser.cpp): ProcessNode is *)
(* called for the event that libxml2's reader stands on, makes a node of   *)
(* it, and calls itself for every event until the one that has the name of *)
(* the node.  Nothing but the names tells where an element ends, so the    *)
(* recursion and the reader must stay in step.                             *)
(*                                                                         *)
(* The calls in progress are a stack.  The reader is libxml2: it delivers  *)
(* the events of a well-formed document, chosen one by one, which may      *)
(* break off anywhere: elements, text, comments, and the other nodes that  *)
(* a document may have, which are processing instructions, CDATA sections  *)
(* and the document type.  A node is the number of the event that it was   *)
(* made of; attributes and text are left out.                              *)
(***************************************************************************)
EXTENDS Integers, Sequences, SequencesExt

CONSTANTS
    Names,          \* names of elements
    MaxEvents       \* bound on the number of events of a document

\* The names that libxml2 gives to text and comments are not names of elements:
\* those of XML have no "#".
ASSUME ParserAssumption ==
    /\ MaxEvents \in Nat
    /\ {"#text", "#comment"} \cap Names = {}

VARIABLES
    pc,             \* where Parse or the innermost ProcessNode is
    events,         \* what the reader has delivered
    document,       \* the tree that these events are, by the rules of XML
    ret,            \* what xmlTextReaderRead returned
    kept,           \* a failed read has left the reader on the last event
    stack,          \* the nodes of the calls in progress, outermost first
    node,           \* what the last ProcessNode returned, NULL or a node
    subNodes        \* the children of each node; those of Document: the root

reader == <<events, document, ret, kept>>
vars == <<pc, reader, stack, node, subNodes>>

Document == 0
NULL == -1
Event(type, name) == [type |-> type, name |-> name]
NoEvent == Event("none", "")
Text == Event("text", "#text")
Space == Event("space", "#text")
Comment == Event("comment", "#comment")
Others == [type : {"other"}, name : Names \cup {"#other"}]
Elements == [type : {"start", "empty"}, name : Names]
Childless == [i \in Document .. MaxEvents |-> <<>>]

Init ==
    /\ pc = "parse"
    /\ events = <<>>
    /\ document = [open |-> <<Document>>, around |-> <<Document>>,
                   tree |-> Childless, noted |-> FALSE, plain |-> TRUE]
    /\ ret = 1
    /\ kept = FALSE
    /\ stack = <<>>
    /\ node = NULL
    /\ subNodes = Childless

-----------------------------------------------------------------------------
(* The document, and the reader that delivers it *)

Appended(f, i, x) == [f EXCEPT ![i] = Append(@, x)]

Current == IF ret = 1 \/ kept THEN Last(events) ELSE NoEvent

NameOf(i) == IF i = Document THEN "" ELSE events[i].name

\* The document d with one more event, the i-th: the elements that are open
\* behind the event, those that are open before it, and the children of each
\* element.  It is no longer plain when what follows a comment, but for white
\* space, is neither an element nor a comment, when an element is in one of its
\* own name, or with any of the other nodes.
Grow(d, i, e) ==
    LET in == Last(d.open)
        isElement == e \in Elements
    IN  [open |-> CASE e.type = "start" -> Append(d.open, i)
                    [] e.type = "end" -> Front(d.open)
                    [] OTHER -> d.open,
         around |-> d.open,
         tree |-> IF isElement \/ e = Text THEN Appended(d.tree, in, i) ELSE d.tree,
         noted |-> e = Comment \/ (d.noted /\ e = Space),
         plain |-> /\ d.plain
                   /\ d.noted => isElement \/ e \in {Comment, Space}
                   /\ isElement => e.name # NameOf(in)
                   /\ e \notin Others]

Complete == document.tree[Document] # <<>> /\ Last(document.open) = Document

\* The events that may come next: one root, the end of the innermost element,
\* text in an element and not after text, and comments and the like anywhere.
Following ==
    LET in == Last(document.open)
        afterText == events # <<>> /\ Last(events) \in {Text, Space}
    IN  {Comment} \cup Others
        \cup (IF ~ Complete THEN Elements ELSE {})
        \cup (IF in # Document THEN {Event("end", NameOf(in))} ELSE {})
        \cup (IF in # Document /\ ~ afterText THEN {Text, Space} ELSE {})

\* xmlTextReaderRead: 1 with an event, 0 behind a complete document, or -1 where
\* the file breaks off.  Then libxml2 may stay on the last event or on none.
Read ==
    \/ /\ ret = 1
       /\ Len(events) < MaxEvents
       /\ \E e \in Following :
             /\ events' = Append(events, e)
             /\ document' = Grow(document, Len(events) + 1, e)
       /\ UNCHANGED <<ret, kept>>
    \/ /\ ret' = IF Complete THEN 0 ELSE -1
       /\ kept' \in IF ret = 1 /\ ret' = -1 /\ events # <<>> THEN BOOLEAN ELSE {kept}
       /\ UNCHANGED <<events, document>>

-----------------------------------------------------------------------------
(* ProcessNode *)

NewNode == Len(events)

\* Without a file there is no reader.
Parse ==
    /\ pc = "parse"
    /\ \/ pc' = "done" /\ UNCHANGED reader
       \/ Read /\ pc' = IF ret' = 0 THEN "done" ELSE "process"
    /\ UNCHANGED <<stack, node, subNodes>>

Return(n) ==
    /\ pc' = "return"
    /\ node' = n

\* White space is dropped and text becomes a node without children.
EnterNode ==
    /\ pc = "process"
    /\ CASE Current = Space -> Return(NULL)
         [] Current = Text -> Return(NewNode)
         [] OTHER -> pc' = "skip" /\ UNCHANGED node
    /\ UNCHANGED <<reader, stack, subNodes>>

\* Mutant: a comment is not read over.
SkipNothing ==
    /\ pc = "skip"
    /\ Current \in {Comment, Space}
    /\ UNCHANGED vars

\* Read over comments and the white space behind them, whatever read returns.
SkipComment ==
    /\ pc = "skip"
    /\ Current \in {Comment, Space}
    /\ Read
    /\ UNCHANGED <<pc, stack, node, subNodes>>

\* Mutant: an empty element has an end.
CreateOpen ==
    /\ pc = "skip"
    /\ Current \notin {Comment, Space}
    /\ IF Current = NoEvent
       THEN Return(NULL) /\ UNCHANGED <<reader, stack>>
       ELSE /\ pc' = "loop"
            /\ stack' = Append(stack, NewNode)
            /\ Read
            /\ UNCHANGED node
    /\ UNCHANGED subNodes

\* Make a node of whatever the reader stands on now.
CreateNode ==
    /\ pc = "skip"
    /\ Current \notin {Comment, Space}
    /\ \/ /\ Current = NoEvent
          /\ Return(NULL)
          /\ UNCHANGED <<reader, stack>>
       \/ /\ Current.type = "empty"
          /\ Return(NewNode)
          /\ UNCHANGED <<reader, stack>>
       \/ /\ Current.type \notin {"none", "empty"}
          /\ pc' = "loop"
          /\ stack' = Append(stack, NewNode)
          /\ Read
          /\ UNCHANGED node
    /\ UNCHANGED subNodes

\* The loop over the subnodes ends at the name of the node, or with the file.
Loop ==
    /\ pc = "loop"
    /\ IF ret = 1 /\ Current.name # events[Last(stack)].name
       THEN pc' = "process" /\ UNCHANGED <<node, stack>>
       ELSE Return(Last(stack)) /\ stack' = Front(stack)
    /\ UNCHANGED <<reader, subNodes>>

\* Mutant: the newest subnode comes first.
AddInFront ==
    /\ pc = "return"
    /\ stack # <<>>
    /\ subNodes' = IF node = NULL THEN subNodes
                   ELSE [subNodes EXCEPT ![Last(stack)] = <<node>> \o @]
    /\ Read
    /\ pc' = "loop"
    /\ UNCHANGED <<stack, node>>

AddSubNode ==
    /\ pc = "return"
    /\ stack # <<>>
    /\ subNodes' = IF node = NULL THEN subNodes
                   ELSE Appended(subNodes, Last(stack), node)
    /\ Read
    /\ pc' = "loop"
    /\ UNCHANGED <<stack, node>>

SetRoot ==
    /\ pc = "return"
    /\ stack = <<>>
    /\ subNodes' = IF node = NULL THEN subNodes
                   ELSE Appended(subNodes, Document, node)
    /\ pc' = "done"
    /\ UNCHANGED <<reader, stack, node>>

ProcessNode ==
    \/ EnterNode
    \/ SkipComment
    \/ CreateNode
    \/ Loop
    \/ AddSubNode

Next ==
    \/ Parse
    \/ ProcessNode
    \/ SetRoot

\* One thread that runs, on a file that is finite.
Spec == Init /\ [][Next]_vars /\ WF_vars(Next)

-----------------------------------------------------------------------------
(* Properties *)

\* The next two are about plain documents.  MPDs have no element directly in
\* one of its own name, and those of createContent.sh have no comments, CDATA
\* sections or processing instructions.

\* In the loop over the subnodes of a node, the calls in progress are the
\* elements that are open in the document where the reader stands, though only
\* the names are compared (lines 86-90).
InStep ==
    pc = "loop" /\ ret = 1 /\ document.plain =>
        <<Document>> \o stack = document.around

\* What Parse returns is the tree of the document, up to where the file breaks
\* off: every element and text, in its place and in order, and nothing else.
TreeIsDocument ==
    pc = "done" /\ document.plain => subNodes = document.tree

\* The file breaks off in or behind a comment that is being read over, and
\* libxml2 stays on it: nothing looks at what read returns (lines 55-59).
Spins == pc = "skip" /\ ret # 1 /\ Current \in {Comment, Space}

\* Parse returns on every document, plain or not, unless it comes to read for
\* ever at a comment at the end of the file.
ParseReturns == <>(pc = "done" \/ Spins)
=============================================================================
