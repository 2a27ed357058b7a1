------------------------------ MODULE Conversion ------------------------------
(***************************************************************************)
(* What a conversion of JSON to binary promises, whichever way it works:   *)
(* it reads a document and ends with the document's binary, or it refuses  *)
(* a document that has none.  A text may also turn out to be no JSON, or   *)
(* to nest too deep.                                                       *)
(***************************************************************************)
EXTENDS Format

CONSTANTS
    Ordered,    \* whether the fields of a struct must come in order
    DepthLimit  \* documents that never nest as deep as this are not too deep

VARIABLES
    type,       \* the type asked for, or "" as long as it plays no role
    doc,        \* the tokens read so far
    status,     \* "reading", "done", "refused", "malformed" or "too_deep"
    result      \* the binary

vars == <<type, doc, status, result>>

Meanings(t, tokens) == Binaries(Ordered, t, TRUE, Document(tokens))

Init ==
    /\ type \in Types \cup {""}
    /\ doc = << >>
    /\ status = "reading"
    /\ result = << >>

ReadOne == \E tok \in Tokens(Strings) : doc' = Append(doc, tok)

Asked(t) == type \in {"", t} /\ type' = t

Read ==
    /\ status = "reading"
    /\ ReadOne
    /\ UNCHANGED <<type, status, result>>

Choose ==
    /\ status = "reading"
    /\ \E t \in Types : Asked(t)
    /\ UNCHANGED <<doc, status, result>>

End(status_) == status = "reading" /\ status' = status_

Succeed ==
    /\ End("done")
    /\ \E t \in Types : Asked(t) /\ result' \in Meanings(t, doc)
    /\ Whole(Document(doc))
    /\ UNCHANGED doc

\* What was read cannot become a document that has a binary.
Refuse ==
    /\ End("refused")
    /\ ReadOne \/ UNCHANGED doc
    /\ \E t \in Types : Asked(t) /\ Meanings(t, doc') = {}
    /\ UNCHANGED result

Malformed ==
    /\ End("malformed")
    /\ UNCHANGED <<type, doc, result>>

\* The reorderable conversion reports a syntax error here as well.
TooDeep ==
    /\ End("too_deep") \/ End("malformed")
    /\ ReadOne \/ UNCHANGED doc
    /\ OpenDepth(doc') >= DepthLimit
    /\ UNCHANGED <<type, result>>

Next == Read \/ Choose \/ Succeed \/ Refuse \/ Malformed \/ TooDeep

Spec == Init /\ [][Next]_vars
===============================================================================
