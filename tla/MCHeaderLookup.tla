--------------------------- MODULE MCHeaderLookup ---------------------------
(***************************************************************************)
(* A disk with two ordinary directories, one of them under two names, a    *)
(* header under two names, two directories of frameworks and a             *)
(* subframework.                                                           *)
(***************************************************************************)
EXTENDS HeaderLookup, TLC

F  == <<"f", "F.framework">>
FG == F \o <<"Frameworks", "G.framework">>
H  == <<"g", "H.framework">>

MCDirs ==
  <<".">> :> 1 @@ <<"u">> :> 2
  @@ <<"s">> :> 3 @@ <<"l">> :> 3 @@ <<"", "s">> :> 3
  @@ <<"f">> :> 4 @@ F :> 5 @@ Append(F, "Headers") :> 6
  @@ Append(F, "Frameworks") :> 7 @@ FG :> 8 @@ Append(FG, "PrivateHeaders") :> 9
  @@ <<"g">> :> 10 @@ H :> 11 @@ Append(H, "Headers") :> 12

InS == <<"a.h">> :> 23 @@ <<"c.h">> :> 24

MCDisk ==
  MCDirs
  @@ <<"main.c">> :> 20 @@ <<".", "main.c">> :> 20 @@ <<".", "c.h">> :> 25
  @@ <<"u", "a.h">> :> 21 @@ <<"u", "b.h">> :> 23
  @@ [p \in {d \o n : d \in {<<"s">>, <<"l">>, <<"", "s">>}, n \in DOMAIN InS} |->
        InS[<<Last(p)>>]]
  @@ F \o <<"Headers", "x.h">> :> 26
  @@ FG \o <<"PrivateHeaders", "y.h">> :> 27
  @@ H \o <<"Headers", "z.h">> :> 28

MCDirInodes == 1 .. 12
MCMainFile  == <<"main.c">>
MCNames     == {<<"a.h">>, <<"b.h">>, <<"c.h">>, <<"", "s", "c.h">>,
                <<"F", "x.h">>, <<"G", "y.h">>, <<"H", "z.h">>}

Dir(path, group, cxx) ==
  [path |-> path, group |-> group, cxx |-> cxx, framework |-> FALSE]
Fw(path) == [path |-> path, group |-> "System", cxx |-> TRUE, framework |-> TRUE]

MCCommandLines ==
  { <<Dir(<<"u">>, "Angled", FALSE), Dir(<<"s">>, "System", TRUE),
      Dir(<<"l">>, "After", FALSE), Fw(<<"f">>)>>,
    <<Dir(<<"u">>, "Quoted", FALSE), Dir(<<"s">>, "Angled", FALSE), Fw(<<"g">>),
      Dir(<<"l">>, "System", FALSE), Fw(<<"f">>)>>,
    <<Dir(<<"none">>, "Angled", FALSE), Dir(<<"main.c">>, "Angled", FALSE),
      Dir(<<"u">>, "Quoted", FALSE), Dir(<<"s">>, "System", FALSE),
      Dir(<<"u">>, "Quoted", FALSE), Dir(<<"u">>, "Angled", FALSE)>> }

=============================================================================
