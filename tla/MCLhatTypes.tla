---------------------------- MODULE MCLhatTypes ----------------------------
(***************************************************************************)
(* A universe of types and values.                                         *)
(***************************************************************************)
EXTENDS LhatTypesProps, TLC

\* Types.
Table(mem) ==
    [kind |-> "table", tag |-> None, mem |-> mem, variadic |-> None, key |-> None,
     item |-> None, entries_known |-> FALSE, inferred_index |-> FALSE]
Literal(mem) == [Table(mem) EXCEPT !.entries_known = TRUE]
Simple(kind) == [kind |-> kind]
Both(kind, arms) == [kind |-> kind, arms |-> arms]
Sub(is_function, params, answer) ==
    [kind |-> "func", is_function |-> is_function, takes_self |-> FALSE,
     self_last |-> FALSE, mutable_self |-> FALSE, answers_fresh |-> FALSE,
     params |-> params, variadic |-> None, answer |-> answer]
Coro(produce, result) ==
    [kind |-> "coro", top |-> FALSE, is_function |-> FALSE, receive |-> None,
     produce |-> produce, result |-> result, endless |-> FALSE]
Host(tag, mem) == [Table(mem) EXCEPT !.tag = tag]

\* (Under a LET, so that TLC's coverage does not copy the record wherever it is read.)
MCDecl ==
  LET decl ==
    [nil |-> Simple("nil"), number |-> Simple("number"), string |-> Simple("string"),
     any |-> Simple("any"), unknown |-> Simple("unknown"),
     Y |-> Table([y |-> "number"]), YZ |-> Table([y |-> "number", z |-> "number"]),
     YT |-> Table([y |-> "number", z |-> "string"]),
     YM |-> Table([y |-> "number", z |-> "MaybeNumber"]),
     YA |-> Table([y |-> "any"]),
     List |-> Table([y |-> "number", next |-> "MaybeList"]),
     Numbers |-> [Table(<<>>) EXCEPT !.variadic = "number"],
     Pair |-> Table([p0 |-> "number", p1 |-> "string"]),
     Index |-> [Table(<<>>) EXCEPT !.key = "string", !.item = "number"],
     LitY |-> Literal([y |-> "number"]),
     LitYZ |-> Literal([y |-> "number", z |-> "number"]),
     LitYM |-> Literal([y |-> "number", z |-> "nil"]),
     LitYT |-> Literal([y |-> "number", z |-> "string"]),
     LitEnd |-> Literal([y |-> "number", next |-> "nil"]),
     LitList |-> Literal([y |-> "number", next |-> "LitEnd"]),
     LitPair |-> Literal([p0 |-> "number", p1 |-> "string"]),
     LitNumbers |-> Literal([p0 |-> "number", p1 |-> "number"]),
     error |-> [kind |-> "error", local |-> FALSE],
     Io |-> [kind |-> "set", local |-> FALSE, kinds |-> <<"Missing", "Denied">>],
     Missing |-> [kind |-> "errkind", local |-> FALSE, set |-> "Io"],
     Denied |-> [kind |-> "errkind", local |-> FALSE, set |-> "Io"],
     localerror |-> [kind |-> "error", local |-> TRUE],
     Gone |-> [kind |-> "errkind", local |-> TRUE, set |-> None],
     Color |-> [kind |-> "enum"],
     Red |-> [kind |-> "enumerator", set |-> "Color"],
     Green |-> [kind |-> "enumerator", set |-> "Color"],
     Makes |-> Sub(FALSE, <<>>, "number"),
     Maps |-> Sub(FALSE, <<"number">>, "number"),
     MapsMaybe |-> Sub(TRUE, <<"MaybeNumber">>, "number"),
     MapsOut |-> Sub(FALSE, <<"number">>, "MaybeNumber"),
     MapsStrings |-> Sub(FALSE, <<"string">>, "string"),
     Either |-> Both("intersect", <<"Maps", "MapsStrings">>),
     Counts |-> Coro("number", "number"), CountsMaybe |-> Coro("MaybeNumber", "number"),
     Body |-> Host("body", [m |-> "Makes"]), Rigid |-> Host("rigid", [m |-> "Makes"]),
     M |-> Table([m |-> "Makes"]),
     Vec |-> [kind |-> "hostvalue", tag |-> "vec", mem |-> <<>>, variadic |-> None,
              key |-> None, item |-> None],
     VecBox |-> [kind |-> "box", tag |-> "vec", sealed |-> FALSE, mem |-> <<>>,
                 variadic |-> None, key |-> None, item |-> None],
     MaybeNumber |-> Both("union", <<"number", "nil">>),
     MaybeList |-> Both("union", <<"List", "nil">>),
     MaybeY |-> Both("union", <<"Y", "nil">>),
     NumberOrText |-> Both("union", <<"number", "string">>),
     Result |-> Both("union", <<"number", "Io">>),
     Fails |-> Both("union", <<"Io", "localerror", "nil">>),
     MaybeRed |-> Both("union", <<"Red", "nil">>),
     Paints |-> Both("union", <<"Color", "Body">>),
     MaybeVec |-> Both("union", <<"Vec", "nil">>),
     Runs |-> Both("union", <<"Maps", "Counts", "string">>)]
  IN decl

\* Values.
Plain(kind, type) == [kind |-> kind, type |-> type]
Of(type, mem) == [kind |-> "table", type |-> type, mem |-> mem, is_instance |-> FALSE]
Thing(type, tag) ==
    [kind |-> "hostdata", type |-> type, tag |-> tag, mem |-> [m |-> "makes"],
     is_instance |-> FALSE]
Error(type) == [kind |-> "error", type |-> type, mem |-> <<>>]

MCHeld ==
  LET held ==
    [nil |-> Plain("nil", "nil"), number |-> Plain("number", "number"),
     string |-> Plain("string", "string"),
     y |-> Of("LitY", [y |-> "number"]),
     yz |-> Of("LitYZ", [y |-> "number", z |-> "number"]),
     ym |-> Of("LitYM", [y |-> "number"]),
     yt |-> Of("LitYT", [y |-> "number", z |-> "string"]),
     end |-> Of("LitEnd", [y |-> "number"]),
     list |-> Of("LitList", [y |-> "number", next |-> "end"]),
     pair |-> Of("LitPair", [p0 |-> "number", p1 |-> "string"]),
     numbers |-> Of("LitNumbers", [p0 |-> "number", p1 |-> "number"]),
     missing |-> Error("Missing"), denied |-> Error("Denied"), gone |-> Error("Gone"),
     red |-> Plain("enumerator", "Red"), green |-> Plain("enumerator", "Green"),
     makes |-> Plain("subroutine", "Makes"), maps |-> Plain("subroutine", "Maps"),
     mapsmaybe |-> Plain("subroutine", "MapsMaybe"),
     mapsout |-> Plain("subroutine", "MapsOut"),
     counts |-> Plain("coroutine", "Counts"),
     countsmaybe |-> Plain("coroutine", "CountsMaybe"),
     body |-> Thing("Body", "body"), rigid |-> Thing("Rigid", "rigid"),
     vec |-> [kind |-> "hostvalue", type |-> "Vec", tag |-> "vec"],
     box |-> [kind |-> "box", type |-> "VecBox", tag |-> "vec"]]
  IN held

MCUnder == [body |-> {"body"}, rigid |-> {"rigid", "body"}]
MCPositions == <<"p0", "p1", "p2">>

MCSeats ==
    {"any", "unknown", "Y", "YT", "YM", "List", "Maps", "Body", "error", "MaybeNumber", "MaybeList",
     "MaybeY", "NumberOrText", "Result", "Fails", "MaybeRed", "Paints", "MaybeVec", "Runs"}
MCTests ==
    {"nil", "number", "Y", "YZ", "YA", "List", "Index", "error", "Io", "Missing", "Color", "Red",
     "Maps", "MapsMaybe", "Counts", "Body", "Rigid", "M", "Vec", "MaybeNumber", "MaybeY"}

MCLoopTests == {"nil", "number", "Y", "Io", "Maps", "Body", "MaybeY"}

\* The lists of arms that tests, one after the other, leave of the seats' types:
\* a fourth test leaves nothing new.
MCLeft(lists) ==
    lists \cup ({Inside(known, w, held) : known \in lists, w \in MCTests, held \in BOOLEAN}
                  \ {<<>>})
MCLists == MCLeft(MCLeft(MCLeft({ArmsOf(s) : s \in MCSeats})))
\* What LhatTypesProofs asks of the types.
ASSUME EachTestIsSound(MCLists)
ASSUME EachMoveIsSound(MCLists)
=============================================================================
