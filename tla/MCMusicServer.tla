--------------------------- MODULE MCMusicServer ---------------------------
EXTENDS MusicServer

(* A song of three and a half chunks against a two-unit socket      *)
(* buffer, so sends are partial and block; a one-unit LIST body.         *)
MCBodyLen == [t \in {"PLAY", "LIST", "STOP"} |->
                CASE t = "PLAY" -> 7 [] t = "LIST" -> 1 [] t = "STOP" -> 0]

MCListPlayStop == <<"LIST", "PLAY", "STOP">>
MCPlay == <<"PLAY">>
MCPlayStop == <<"PLAY", "STOP">>
=============================================================================
