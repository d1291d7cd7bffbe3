------------------------------ MODULE MCDevices -----------------------------
(***************************************************************************)
(* Values for Devices: a DHT22 on a warm day and a frosty one, two         *)
(* questions of begin() and three of a scan, an interval of two ticks,     *)
(* and a clock that wraps every six.                                       *)
(***************************************************************************)
EXTENDS Devices

MCFrames == {<<2, 140, 1, 95>>, <<1, 244, 128, 101>>}

\* A command with its page, a line broken off behind "GET /", a command without
\* "GET /" in front of it, two commands without a page.
MCRequests == {<<"GET", "RH", "cr", "nl", "nl">>, <<"text", "GET">>,
               <<"RL", "nl", "nl">>, <<"GET", "GH", "nl", "GET", "GL">>}
=============================================================================
