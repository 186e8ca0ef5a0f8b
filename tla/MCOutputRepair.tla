--------------------------- MODULE MCOutputRepair ---------------------------
(***************************************************************************)
(* A role with a compact view, a record, which is declared after it and    *)
(* points at the view and at itself, and a manuscript, in whose schema the *)
(* repair finds nothing but names.  The second catalog allows fewer        *)
(* fields.                                                                 *)
(***************************************************************************)
EXTENDS OutputRepair

MCOrder == <<"view", "record", "manuscript">>
MCRequired == {"view", "record"}

ViewSchema ==
    [declared |-> {"about", "note"}, required |-> {"about"}, nested |-> {},
     ids |-> {"about"}, times |-> {}, strict |-> TRUE]
RecordSchema ==
    [declared |-> {"id", "primary", "view", "gist", "remark", "created_at", "schema_version", Digest},
     required |-> {"id", "created_at", "schema_version", Digest}, nested |-> {},
     ids |-> {"id"}, times |-> {"created_at"}, strict |-> TRUE]
ManuscriptSchema ==
    [declared |-> {"id", "claims", "created_at", Digest}, required |-> {"id", "claims", Digest},
     nested |-> {}, ids |-> {"id", "claims"}, times |-> {}, strict |-> FALSE]
FirstCatalog == [view |-> ViewSchema, record |-> RecordSchema, manuscript |-> ManuscriptSchema]
MCCatalog == <<FirstCatalog, [FirstCatalog EXCEPT !.view.declared = {"about"}]>>

Common == [facts |-> {"schema_version"}, times |-> {"created_at"}, filled |-> {},
           generation |-> {}, withheld |-> {"published_at"}]
MCOwned == [view |-> Common,
            record |-> [Common EXCEPT !.filled = {"id"}, !.generation = {"generation_id"}],
            manuscript |-> [Common EXCEPT !.filled = {"id"}]]

MCPattern == {"m1", "derived"}
MCSane == [n \in {"m1", "M1", "derived"} |-> IF n = "M1" THEN "m1" ELSE n]

\* What an agent may write: documents in which each repair has something to do,
\* and one in which there is little.
GoodRecord == [primary |-> <<"to", "record">>,
               view |-> <<"to", "view">>, gist |-> <<"name", "m1">>]
MCWrites == [
    view |-> {[about |-> <<"name", "M1">>, note |-> <<"null">>, extra |-> <<"text">>]},
    record |-> {GoodRecord,
                [id |-> <<"name", "M1">>, primary |-> <<"to", "record">>,
                 view |-> <<"to", "view">>, gist |-> <<"name", "M1">>,
                 remark |-> <<"empty">>, generation_id |-> <<"text">>,
                 created_at |-> <<"time", 0>>],
                Garbage},
    manuscript |-> {[claims |-> <<"name", "M1">>, gist |-> <<"name", "M1">>]}]
MCChanges == [
    view |-> {[note |-> <<"null">>]},
    record |-> {[gist |-> <<"text">>]},
    manuscript |-> {}]

AllCodes == {"timestamp_injection", "additional_properties_strip", "null_strip",
             "id_sanitization", "empty_string_strip", "hash_recomputation"}
MCCodes == {AllCodes, {"additional_properties_strip"}}
MCAsked == {{"view", "record"}, {"manuscript"}}
MCBlamed == {{"gist"}}

\* The instance is one that the theorem on ClosureIsCoherent speaks about.
ASSUME ViewsComeFirst /\ Upgradable \subseteq {"idle"}

=============================================================================
