------------------------------ MODULE Compress ------------------------------
(***************************************************************************)
(* Fields tagged dynamo:"compress" (compress.go): marshalItem writes such  *)
(* a field as gzip of its JSON, unmarshalItemInto takes it apart again.    *)
(* Programs in which different fields are tagged share one row, as when a  *)
(* tag is added while old instances still run and old rows are stored.     *)
(*                                                                         *)
(* An attribute has a DynamoDB type and a content, which is a value in its *)
(* native form or gzipped.  gzip and JSON are reversible here; a value     *)
(* that JSON has no form for makes json.Marshal fail.                      *)
(***************************************************************************)
EXTENDS Naturals

CONSTANTS
    Fields,        \* the fields of the struct, by their Go names
    Kind,          \* "text" or "bytes", of each field
    dynamodbav,    \* the name in the dynamodbav tag of each field, or "" or "-"
    Programs,      \* the programs that run
    Compressed,    \* the fields each of them has tagged
    Values,        \* what fields are set to
    NoJSON         \* those values json.Marshal refuses

Zero == "zero"

ASSUME CompressAssumption ==
    /\ Kind \in [Fields -> {"text", "bytes"}] /\ DOMAIN dynamodbav = Fields
    /\ Compressed \in [Programs -> SUBSET Fields]
    /\ NoJSON \subseteq Values /\ Zero \notin Values

VARIABLES
    row,     \* the attributes of the row, by name
    last,    \* history: the values last written
    read     \* what the last read returned, to which program

compressVars == <<row, last, read>>

\* What the SDK calls the attribute of a field, and which fields it skips.
Skipped(f) == dynamodbav[f] = "-"
AttrName(f) == IF dynamodbav[f] = "" \/ Skipped(f) THEN f ELSE dynamodbav[f]

\* A mutant of resolveAttrName: the Go name.
resolveAttrNameGo(f) == f

\* The attribute name of a field, as this package finds it.
resolveAttrName(f) == IF dynamodbav[f] \in {"", "-"} THEN f ELSE dynamodbav[f]

Names == {AttrName(f) : f \in Fields} \cup Fields
None == [type |-> "none"]
Attr == {None} \cup [type : {"S", "B"}, form : {"native", "gzip"}, val : Values \cup {Zero}]
Vals == [Fields -> Values \cup {Zero}]
Gzipped == "garbage"    \* what gzip bytes are to a program without the tag

CompressTypeOK ==
    /\ row \in [Names -> Attr]
    /\ last \in Vals
    /\ read \in [by : Programs, err : BOOLEAN,
               vals : [Fields -> Values \cup {Zero, Gzipped}]] \cup {None}

\* The row was written before the struct had these fields.
CompressInit ==
    /\ row = [n \in Names |-> None]
    /\ last = [f \in Fields |-> Zero]
    /\ read = None

-----------------------------------------------------------------------------
(* The SDK's attributevalue package (external). *)

Native(f, v) == [type |-> IF Kind[f] = "bytes" THEN "B" ELSE "S", form |-> "native", val |-> v]

MarshalMap(vals) ==
    [n \in Names |->
        IF \E f \in Fields : ~Skipped(f) /\ AttrName(f) = n
        THEN LET f == CHOOSE g \in Fields : ~Skipped(g) /\ AttrName(g) = n IN Native(f, vals[f])
        ELSE None]

\* A Binary attribute does not go into a string, and any bytes into a []byte.
Fits(f, a) == a = None \/ Skipped(f) \/ Kind[f] = "bytes" \/ a.type = "S"

\* What a field gets: gzipped bytes as they are, which is none of the values.
UnmarshalMap(attrs, f) ==
    LET a == attrs[AttrName(f)]
    IN  IF Skipped(f) \/ a = None THEN Zero ELSE IF a.form = "gzip" THEN Gzipped ELSE a.val

-----------------------------------------------------------------------------
(* compress.go. *)

compressJSON(v) == [type |-> "B", form |-> "gzip", val |-> v]

\* The attribute map; tagged fields replace what MarshalMap made of them.
marshalItem(p, vals) ==
    LET av == MarshalMap(vals)
    IN  [n \in Names |->
            IF \E f \in Compressed[p] : resolveAttrName(f) = n
            THEN LET f == CHOOSE g \in Compressed[p] : resolveAttrName(g) = n IN compressJSON(vals[f])
            ELSE av[n]]

\* A mutant of extractCompressedFields: whatever is in a tagged field is taken
\* for compressed.
extractAnyShape(p) == {f \in Compressed[p] : row[resolveAttrName(f)] # None}

\* The tagged fields that are set aside: those with a Binary attribute.
extractCompressedFields(p) == {f \in Compressed[p] : row[resolveAttrName(f)].type = "B"}

filtered(p) ==
    [n \in Names |-> IF \E f \in extractCompressedFields(p) : resolveAttrName(f) = n THEN None ELSE row[n]]

\* decompressJSON fails on what is not gzip.
Decompresses(f) == row[resolveAttrName(f)].form = "gzip"

Unmarshals(p) ==
    /\ \A f \in Fields : Fits(f, filtered(p)[AttrName(f)])
    /\ \A f \in extractCompressedFields(p) : Decompresses(f)

unmarshalItemInto(p) ==
    [f \in Fields |-> IF f \in extractCompressedFields(p)
                     THEN row[resolveAttrName(f)].val ELSE UnmarshalMap(filtered(p), f)]

-----------------------------------------------------------------------------
\* A Put, batch put or transaction put by program p, which replaces the row; one
\* that does not marshal sends nothing.
Put(p, vals) ==
    /\ \A f \in Compressed[p] : vals[f] \notin NoJSON
    /\ row' = marshalItem(p, vals)
    /\ last' = vals
    /\ UNCHANGED read

\* UpdateBuilder.Set, which writes the native form, of a tagged field too.
Set(f, v) ==
    /\ row' = [row EXCEPT ![resolveAttrName(f)] = Native(f, v)]
    /\ last' = [last EXCEPT ![f] = v]
    /\ UNCHANGED read

\* An error leaves the caller without an item.
Read(p) ==
    /\ read' = [by |-> p, err |-> ~Unmarshals(p),
                vals |-> IF Unmarshals(p) THEN unmarshalItemInto(p)
                                          ELSE [f \in Fields |-> Zero]]
    /\ UNCHANGED <<row, last>>

CompressNext ==
    \/ \E p \in Programs : Read(p) \/ \E vals \in [Fields -> Values] : Put(p, vals)
    \/ \E f \in Fields, v \in Values : Set(f, v)

CompressSpec == CompressInit /\ [][CompressNext]_compressVars

-----------------------------------------------------------------------------
\* A read that succeeds returns what was written last, by whichever program: a
\* program never shows gzip bytes or a zero value for a field that has a value
\* (compress.go 81-106).
ReadsLastWritten ==
    [][\A p \in Programs : Read(p) /\ ~read'.err =>
          \A f \in Fields : ~Skipped(f) => read'.vals[f] = last[f]]_compressVars

\* A program that has every field tagged that some program has reads every row,
\* also those that were written before the tag (compress.go 153-156, 173-176).
Newest(p) == \A q \in Programs : Compressed[q] \subseteq Compressed[p]
NewestReadsAll ==
    read # None /\ Newest(read.by) => ~read.err

-----------------------------------------------------------------------------
(* Why they hold: if no two fields have one name, and no tagged one is a     *)
(* []byte, whose native form is Binary, too.                                 *)

DistinctNames ==
    \A f, g \in Fields : resolveAttrName(f) = resolveAttrName(g) => f = g
TaggedIsText == \A p \in Programs : \A f \in Compressed[p] : Kind[f] = "text"

\* The attribute of a field has the value last written, in a form that some
\* program gives it, and is missing only before the first write.
FieldInv(f) ==
    LET a == row[resolveAttrName(f)]
    IN  \/ a = None /\ (Skipped(f) \/ last[f] = Zero)
        \/ a = Native(f, last[f])
        \/ a = compressJSON(last[f]) /\ \E p \in Programs : f \in Compressed[p]

CompressInv == CompressTypeOK /\ (\A f \in Fields : FieldInv(f)) /\ NewestReadsAll
=============================================================================
