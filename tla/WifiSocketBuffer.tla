-------------------------- MODULE WifiSocketBuffer --------------------------
(***************************************************************************)
(* WiFiSocketBuffer: what has been fetched from a socket of the WiFi       *)
(* module and is not read yet.  An empty buffer is filled when it is asked *)
(* for; `data` are the bytes in it, `queue` those the module has for the   *)
(* socket.                                                                 *)
(***************************************************************************)
EXTENDS Naturals, Sequences, FiniteSetsExt

CONSTANT BufferSize   \* WIFI_SOCKET_BUFFER_SIZE

ASSUME BufferAssumption == BufferSize \in Nat \ {0}

UpTo(s, n) == SubSeq(s, 1, Min({n, Len(s)}))
From(s, n) == SubSeq(s, n, Len(s))

(* available()                                                             *)
Filled(data, queue) == IF data = <<>> THEN UpTo(queue, BufferSize) ELSE data
Left(data, queue) == IF data = <<>> THEN From(queue, Len(UpTo(queue, BufferSize)) + 1)
                     ELSE queue
=============================================================================
