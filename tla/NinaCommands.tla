---------------------------- MODULE NinaCommands ----------------------------
(***************************************************************************)
(* The commands the board sends to its WiFi module over SPI, one row per   *)
(* function of wifi_drv.cpp and server_drv.cpp.  A row tells what the      *)
(* function writes (the announced number of parameters, the parameters     *)
(* themselves, the padding) and how it reads the answer.                   *)
(***************************************************************************)
EXTENDS Naturals, Sequences, FiniteSets

CONSTANT Sizes   \* lengths of names, keys, hosts and payloads

ASSUME SizesAssumption == Sizes \subseteq Nat /\ IsFiniteSet(Sizes)

(* A parameter: its length field of one or two bytes, its bytes, and       *)
(* whether END_CMD is written behind it.                                   *)
Param(n)   == [head |-> 1, body |-> n, last |-> FALSE]
Buffer(n)  == [head |-> 2, body |-> n, last |-> FALSE]
Last(p)    == [p EXCEPT !.last = TRUE]

(* while (commandSize % 4) { readChar(); commandSize++; }                  *)
(* (a bug to be caught: one byte of the fill is forgotten)                 *)
UpTo4Short(commandSize) == 3 - (commandSize % 4)
UpTo4(commandSize) == (4 - (commandSize % 4)) % 4

(* How the answer is read: by which of the wait functions, how many        *)
(* parameters that function insists on, and what the caller returns when   *)
(* the answer is not accepted.                                             *)
One(default)    == [form |-> "cmd", count |-> 1, default |-> default]
Data(default)   == [form |-> "data", count |-> 1, default |-> default]
Params(n)       == [form |-> "params", count |-> n, default |-> "unset"]
List            == [form |-> "list", count |-> 10, default |-> "zero"]
NoAnswer        == [form |-> "none", count |-> 0, default |-> "unset"]

Command(code, count, sends, pad, answer) ==
    [code |-> code, count |-> count, sends |-> sends, pad |-> pad, answer |-> answer]

(* One byte parameter and two padding bytes: the form of most queries.     *)
Query(code, answer)    == Command(code, 1, <<Last(Param(1))>>, 2, answer)
(* No parameter at all.                                                    *)
Bare(code, answer)     == Command(code, 0, <<>>, 0, answer)
(* One parameter of n bytes, padded by the loop.                           *)
Named(code, n, answer) == Command(code, 1, <<Last(Param(n))>>, UpTo4(5 + n), answer)

-----------------------------------------------------------------------------
(* wifi_drv.cpp                                                            *)

AddressQueries == {Query("GET_IPADDR", Params(3)), Query("GET_REMOTE_DATA", Params(2))}

JoinCommands ==
    {Named("SET_NET", n, One("failure")) : n \in Sizes} \cup
    UNION {{Command("SET_PASSPHRASE", 2, <<Param(n), Last(Param(m))>>,
                    UpTo4(6 + n + m), One("failure")),
            Command("SET_KEY", 3, <<Param(n), Param(1), Last(Param(m))>>,
                    UpTo4(8 + n + m), One("failure"))} : n, m \in Sizes}

ConfigCommands ==
    {Command("SET_IP_CONFIG", 4, <<Param(1), Param(4), Param(4), Last(Param(4))>>, 3, One("failure")),
     Command("SET_DNS_CONFIG", 3, <<Param(1), Param(4), Last(Param(4))>>, 0, One("failure"))}
    \cup {Named("SET_HOSTNAME", n, One("failure")) : n \in Sizes}

LinkCommands ==
    {Query("DISCONNECT", One("zero")), Bare("GET_REASON_CODE", One("one")),
     Bare("GET_CONN_STATUS", One("no shield")), Query("GET_MACADDR", One("cached"))}

NetworkQueries ==
    {Query("GET_CURR_SSID", One("zero")), Query("GET_CURR_BSSID", One("cached")),
     Query("GET_CURR_RSSI", One("zero")), Query("GET_CURR_ENCT", One("zero"))}

ScanCommands ==
    {Bare("START_SCAN_NETWORKS", One("failure")), Bare("SCAN_NETWORKS", List)}

ItemQueries ==
    {Query("GET_IDX_ENCT", One("zero")), Query("GET_IDX_BSSID", One("unset")),
     Query("GET_IDX_CHANNEL", One("zero")), Query("GET_IDX_RSSI", One("zero"))}

HostCommands ==
    {Named("REQ_HOST_BY_NAME", n, One("zero")) : n \in Sizes} \cup
    {Bare("GET_HOST_BY_NAME", One("zero")), Bare("GET_FW_VERSION", One("cached")),
     Bare("GET_TIME", One("zero"))}

PowerCommand == Query("SET_POWER_MODE", One("unset"))

AccessPointCommands ==
    {Command("SET_AP_NET", 2, <<Param(n), Last(Param(1))>>, UpTo4(3 + n), One("failure")) :
        n \in Sizes} \cup
    {Command("SET_AP_PASSPHRASE", 3, <<Param(n), Param(m), Last(Param(1))>>,
             UpTo4(4 + n + m), One("failure")) : n, m \in Sizes}

(* ssid, user, password and identity are taken together in n: their length *)
(* fields and their bytes add up in the same way.                          *)
EnterpriseCommands ==
    {Command("SET_ENT", 6, <<Buffer(1), Buffer(n), Buffer(0), Buffer(0), Buffer(0), Last(Buffer(m))>>,
             UpTo4(15 + 1 + n + m), One("failure")) : n, m \in Sizes}

ModuleCommands ==
    {Command("PING", 2, <<Param(4), Last(Param(1))>>, 1, One("pingError")),
     Query("SET_DEBUG", One("unset")), Bare("GET_TEMPERATURE", One("zero"))}

PinWrite(code) == Command(code, 2, <<Param(1), Last(Param(1))>>, 1, One("failure"))

PinMode      == PinWrite("SET_PIN_MODE")
DigitalWrite == PinWrite("SET_DIGITAL_WRITE")
AnalogWrite  == PinWrite("SET_ANALOG_WRITE")
DigitalRead  == Query("GET_DIGITAL_READ", One("failure"))
AnalogRead   == Query("GET_ANALOG_READ", One("zero"))

FileCommands ==
    {Named("DOWNLOAD_OTA", n, One("failure")) : n \in Sizes} \cup
    {Command(code, 2, <<Param(n), Last(Param(m))>>, UpTo4(6 + n + m), One("failure")) :
        code \in {"DOWNLOAD_FILE", "RENAME_FILE"}, n, m \in Sizes}

(* fileOperation: offset, length and name; writing adds the contents m     *)
(* behind a length byte of zero.                                           *)
FileQueries ==
    {Command(code, 3, <<Param(4), Param(4), Last(Param(n))>>, UpTo4(4 + 3 + 8 + n), One("zero")) :
        code \in {"READ_FILE", "DELETE_FILE", "EXISTS_FILE"}, n \in Sizes}

FileWrites ==
    {Command("WRITE_FILE", 4, <<Param(4), Param(4), Param(n), Last(Param(m))>>,
             UpTo4(4 + 4 + 8 + n), One("zero")) : n, m \in Sizes}

(* applyOTA does not wait for an answer.                                   *)
UpdateCommand == Bare("APPLY_OTA", NoAnswer)

-----------------------------------------------------------------------------
(* server_drv.cpp                                                          *)

StartCommands ==
    {Command("START_SERVER_TCP", 3, <<Param(2), Param(1), Last(Param(1))>>, 1, One("unset")),
     Command("START_SERVER_TCP", 4, <<Param(4), Param(2), Param(1), Last(Param(1))>>, 0, One("unset")),
     Command("START_CLIENT_TCP", 4, <<Param(4), Param(2), Param(1), Last(Param(1))>>, 0, One("unset"))}
    \cup {Command("START_CLIENT_TCP", 5, <<Param(n), Param(4), Param(2), Param(1), Last(Param(1))>>,
                  UpTo4(17 + n), One("unset")) : n \in Sizes}

SocketQueries ==
    {Query("STOP_CLIENT_TCP", One("unset")), Query("GET_STATE_TCP", One("zero")),
     Query("GET_CLIENT_STATE_TCP", One("zero"))}

AvailQuery == Query("AVAIL_DATA_TCP", One("zero"))

(* peek is passed as a number, which selects the two-byte sendParam.       *)
(* getDataBuf starts with _dataLen holding the length asked for and looks  *)
(* at nothing else afterwards.                                             *)
ReadCommands ==
    {Command("GET_DATA_TCP", 2, <<Param(1), Last(Param(2))>>, 3, Data("noData")),
     Command("GET_DATABUF_TCP", 2, <<Buffer(1), Last(Buffer(2))>>, 1, Data("requested"))}

WriteCommands ==
    {Command(code, 2, <<Buffer(1), Last(Buffer(n))>>, UpTo4(9 + n), Data("zero")) :
        code \in {"INSERT_DATABUF", "SEND_DATA_TCP"}, n \in Sizes}
    \cup {Query("SEND_DATA_UDP", Data("zero"))}

SentQuery == Query("DATA_SENT_TCP", One("zero"))

GetSocket == Bare("GET_SOCKET", One("noSocket"))

-----------------------------------------------------------------------------
(* The rows whose padding does what its comment says, and the others.      *)
PaddedCommands ==
    AddressQueries \cup JoinCommands \cup ConfigCommands \cup LinkCommands \cup NetworkQueries
    \cup ScanCommands \cup ItemQueries \cup HostCommands \cup {PowerCommand}
    \cup AccessPointCommands \cup ModuleCommands \cup {DigitalRead, AnalogRead} \cup FileCommands \cup FileQueries
    \cup {UpdateCommand} \cup StartCommands \cup SocketQueries \cup {AvailQuery}
    \cup ReadCommands \cup WriteCommands \cup {SentQuery, GetSocket}

UnpaddedCommands == {PinMode, DigitalWrite, AnalogWrite} \cup EnterpriseCommands \cup FileWrites
=============================================================================
