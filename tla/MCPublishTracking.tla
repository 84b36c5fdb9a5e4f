------------------------- MODULE MCPublishTracking -------------------------
(* Volume and node IDs for model checking, as sequences of tokens.         *)
EXTENDS PublishTracking

(* tank/vol and tank/vol-other; nodes node-a and node.                     *)
Plain == {<<"tank", "/", "vol">>, <<"tank", "/", "vol", "-", "other">>}
Nodes == {<<"node">>, <<"node", "-", "a">>}

(* validNameRegex allows a colon: tank/vol and tank/vol:other.             *)
WithColon == {<<"tank", "/", "vol">>, <<"tank", "/", "vol", ":", "other">>}
=============================================================================
