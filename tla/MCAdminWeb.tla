---------------------------- MODULE MCAdminWeb ----------------------------
(* Instances of AdminWeb for TLC.                                          *)
EXTENDS AdminWeb, TLC

CONSTANTS h1, h2

Symmetry == Permutations({h1, h2})

Content(id, dir, mode, allow, created) ==
    [id |-> id, dir |-> dir, mode |-> mode, allow |-> allow, created |-> created]

Input(kind, id, dir, mode, entry, argv) ==
    [kind |-> kind, id |-> id, dir |-> dir, mode |-> mode, entry |-> entry, argv |-> argv]

\* A project with two commands.  The forms change its metadata, loosen its
\* approval mode, remove the first command listed and add the second; other
\* administrators change the metadata or reorder the commands.
Lists == {<<>>, <<"x">>, <<"y">>, <<"x", "y">>, <<"y", "x">>}
EditContents ==
    [id : {"i", "j"}, dir : {"d", "e"}, mode : {"confirm", "automatic"}, allow : Lists, created : {FALSE}]
EditInputs ==
    {Input("metadata", "j", "e", "confirm", 1, "nil"), Input("mode", "i", "d", "automatic", 1, "nil"),
     Input("add", "i", "d", "confirm", 1, "y"), Input("remove", "i", "d", "confirm", 1, "nil")}
EditFirst == Content("i", "d", "confirm", <<"x">>, FALSE)
EditOthers == {Content("j", "d", "confirm", <<"x">>, FALSE), Content("i", "d", "automatic", <<"y", "x">>, FALSE)}

\* The project and one that can be created beside it; other administrators
\* change the directory.
PlainContents == [id : {"i"}, dir : {"d", "e"}, mode : {"confirm"}, allow : {<<>>}, created : BOOLEAN]
CreateInputs == {Input("create", "i", "d", "confirm", 1, "nil")}
Plain == Content("i", "d", "confirm", <<>>, FALSE)
PlainOthers == {Content("i", "e", "confirm", <<>>, FALSE)}

\* A metadata form while others set the identifier it sets, and set it back.
NameContents == [id : {"i", "j"}, dir : {"d"}, mode : {"confirm"}, allow : {<<>>}, created : {FALSE}]
NameInputs == {Input("metadata", "j", "d", "confirm", 1, "nil")}

\* Without agrees with the library's filter on short lists.
ASSUME WithoutFilters ==
    \A n \in 0 .. 4 : \A s \in [1 .. n -> {"x", "y"}] :
        Without(s, "x") = SelectSeq(s, LAMBDA b : b # "x")
===========================================================================
