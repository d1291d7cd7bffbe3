---------------------------- MODULE NinaSpiProofs ----------------------------
(***************************************************************************)
(* Theorems about NinaSpi, for every set of lengths, every selection of the*)
(* commands, any number of faults and however the transactions are         *)
(* numbered: first the table of commands, row by row, then the handshake.  *)
(***************************************************************************)
EXTENDS NinaSpi, TLAPS

Parameter == [head : Nat, body : Nat, last : BOOLEAN]

(* A whole command: the announced number of parameters, END_CMD behind the *)
(* last of them only, and no answer expected of APPLY_OTA alone.           *)
WellFormed(c) ==
    /\ c.count \in 0 .. 6 /\ Len(c.sends) = c.count /\ c.pad \in Nat
    /\ c.sends \in Seq(Parameter)
    /\ \A i \in 1 .. c.count : c.sends[i].last <=> i = c.count
    /\ c.answer.form = "none" <=> c.code = "APPLY_OTA"

(* The command and its padding fill a multiple of four bytes.              *)
Fills(c) == (WrittenBefore(c, c.count + 1) + c.pad) % 4 = 0

\* What a parameter puts on the wire: its length field, its bytes, and END_CMD if it is the last.
LEMMA ParamType ==
  ASSUME NEW n \in Nat
  PROVE  /\ Param(n) \in Parameter /\ ~ Param(n).last /\ Written(Param(n)) = n + 1
         /\ Buffer(n) \in Parameter /\ ~ Buffer(n).last /\ Written(Buffer(n)) = n + 2
         /\ Last(Param(n)) \in Parameter /\ Last(Param(n)).last
         /\ Written(Last(Param(n))) = n + 2
         /\ Last(Buffer(n)) \in Parameter /\ Last(Buffer(n)).last
         /\ Written(Last(Buffer(n))) = n + 3
<1>1. /\ Param(n) \in Parameter /\ ~ Param(n).last
      /\ Buffer(n) \in Parameter /\ ~ Buffer(n).last
  BY DEF Param, Buffer, Parameter
<1>2. Written(Param(n)) = n + 1 /\ Written(Buffer(n)) = n + 2
  BY DEF Param, Buffer, Written
<1>3. ASSUME NEW p \in Parameter, ~ p.last
      PROVE  Last(p) \in Parameter /\ Last(p).last /\ Written(Last(p)) = Written(p) + 1
  <2>1. Last(p) \in Parameter /\ Last(p).last
    BY <1>3 DEF Last, Parameter
  <2>2. Last(p).head = p.head /\ Last(p).body = p.body
    BY <1>3 DEF Last, Parameter
  <2>3. p.head \in Nat /\ p.body \in Nat
    BY <1>3 DEF Parameter
  <2>4. QED BY <1>3, <2>1, <2>2, <2>3 DEF Written
<1>4. QED BY <1>1, <1>2, <1>3

\* The padding loop fills up to a multiple of four, also when it starts one word early.
LEMMA UpTo4Type ==
  ASSUME NEW n \in Nat
  PROVE  /\ UpTo4(n) \in Nat /\ (n + UpTo4(n)) % 4 = 0
         /\ (n + 4 + UpTo4(n)) % 4 = 0
BY DEF UpTo4

\* A command without parameters fills its transfer: START_CMD, code, count and END_CMD.
LEMMA BareRow ==
  ASSUME NEW code, NEW answer, answer.form = "none" <=> code = "APPLY_OTA"
  PROVE  WellFormed(Bare(code, answer)) /\ Fills(Bare(code, answer))
BY DEF Bare, Command, WellFormed, Fills, WrittenBefore, PartBefore

\* A command of one parameter is well formed, and fills its transfer if its padding does.
LEMMA RowOf1 ==
  ASSUME NEW code, NEW answer, code # "APPLY_OTA", answer.form # "none",
         NEW p \in Parameter, p.last, NEW pad \in Nat
  PROVE  LET c == Command(code, 1, <<p>>, pad, answer)
         IN  /\ WellFormed(c)
             /\ (3 + Written(p) + pad) % 4 = 0 => Fills(c)
BY DEF Command, WellFormed, Fills, WrittenBefore, PartBefore, Written, Parameter

\* The same for two parameters.
LEMMA RowOf2 ==
  ASSUME NEW code, NEW answer, code # "APPLY_OTA", answer.form # "none",
         NEW p \in Parameter, NEW q \in Parameter, ~ p.last, q.last, NEW pad \in Nat
  PROVE  LET c == Command(code, 2, <<p, q>>, pad, answer)
         IN  /\ WellFormed(c)
             /\ (3 + Written(p) + Written(q) + pad) % 4 = 0 => Fills(c)
BY DEF Command, WellFormed, Fills, WrittenBefore, PartBefore, Written, Parameter

\* The same for three.
LEMMA RowOf3 ==
  ASSUME NEW code, NEW answer, code # "APPLY_OTA", answer.form # "none",
         NEW p \in Parameter, NEW q \in Parameter, NEW r \in Parameter,
         ~ p.last, ~ q.last, r.last, NEW pad \in Nat
  PROVE  LET c == Command(code, 3, <<p, q, r>>, pad, answer)
         IN  /\ WellFormed(c)
             /\ (3 + Written(p) + Written(q) + Written(r) + pad) % 4 = 0 => Fills(c)
BY DEF Command, WellFormed, Fills, WrittenBefore, PartBefore, Written, Parameter

\* The same for four.
LEMMA RowOf4 ==
  ASSUME NEW code, NEW answer, code # "APPLY_OTA", answer.form # "none",
         NEW p \in Parameter, NEW q \in Parameter, NEW r \in Parameter, NEW s \in Parameter,
         ~ p.last, ~ q.last, ~ r.last, s.last, NEW pad \in Nat
  PROVE  LET c == Command(code, 4, <<p, q, r, s>>, pad, answer)
         IN  /\ WellFormed(c)
             /\ (3 + Written(p) + Written(q) + Written(r) + Written(s) + pad) % 4 = 0 => Fills(c)
BY DEF Command, WellFormed, Fills, WrittenBefore, PartBefore, Written, Parameter
\* The same for five.
LEMMA RowOf5 ==
  ASSUME NEW code, NEW answer, code # "APPLY_OTA", answer.form # "none",
         NEW p \in Parameter, NEW q \in Parameter, NEW r \in Parameter, NEW s \in Parameter,
         NEW t \in Parameter, ~ p.last, ~ q.last, ~ r.last, ~ s.last, t.last, NEW pad \in Nat
  PROVE  LET c == Command(code, 5, <<p, q, r, s, t>>, pad, answer)
         IN  /\ WellFormed(c)
             /\ (3 + Written(p) + Written(q) + Written(r) + Written(s) + Written(t) + pad) % 4 = 0
                  => Fills(c)
BY DEF Command, WellFormed, Fills, WrittenBefore, PartBefore, Written, Parameter

\* Six parameters, which only a command without correct padding has.
LEMMA RowOf6 ==
  ASSUME NEW code, NEW answer, code # "APPLY_OTA", answer.form # "none",
         NEW p \in Parameter, NEW q \in Parameter, NEW r \in Parameter, NEW s \in Parameter,
         NEW t \in Parameter, NEW u \in Parameter,
         ~ p.last, ~ q.last, ~ r.last, ~ s.last, ~ t.last, u.last, NEW pad \in Nat
  PROVE  WellFormed(Command(code, 6, <<p, q, r, s, t, u>>, pad, answer))
BY DEF Command, WellFormed, Parameter

\* The parameters whose length is fixed.
LEMMA FixedParams ==
  /\ \A n \in {1, 2, 4} : Param(n) \in Parameter /\ ~ Param(n).last
                          /\ Last(Param(n)) \in Parameter /\ Last(Param(n)).last
  /\ Written(Param(1)) = 2 /\ Written(Param(2)) = 3 /\ Written(Param(4)) = 5
  /\ Written(Last(Param(1))) = 3 /\ Written(Last(Param(2))) = 4 /\ Written(Last(Param(4))) = 6
  /\ Written(Buffer(1)) = 3 /\ Written(Last(Buffer(2))) = 5
BY ParamType

\* A query of one byte carries two bytes of padding.
LEMMA QueryRow ==
  ASSUME NEW code, NEW answer, code # "APPLY_OTA", answer.form # "none"
  PROVE  WellFormed(Query(code, answer)) /\ Fills(Query(code, answer))
BY ParamType, RowOf1 DEF Query

\* A command of one name or key pads by the loop.
LEMMA NamedRow ==
  ASSUME NEW code, NEW answer, code # "APPLY_OTA", answer.form # "none", NEW n \in Nat
  PROVE  WellFormed(Named(code, n, answer)) /\ Fills(Named(code, n, answer))
<1>1. 5 + n \in Nat /\ 3 + (n + 2) + UpTo4(5 + n) = (5 + n) + UpTo4(5 + n)
  BY UpTo4Type
<1>2. (3 + Written(Last(Param(n))) + UpTo4(5 + n)) % 4 = 0
  BY <1>1, ParamType, UpTo4Type
<1>3. QED BY <1>1, <1>2, ParamType, UpTo4Type, RowOf1 DEF Named

\* Only APPLY_OTA does without an answer.
LEMMA AnswerForms ==
  \A d : One(d).form # "none" /\ Data(d).form # "none" /\ Params(d).form # "none"
         /\ List.form # "none" /\ NoAnswer.form = "none"
BY DEF One, Data, Params, List, NoAnswer

(* Rows that are well formed and fill their transfer.                      *)
Good(C) == \A c \in C : WellFormed(c) /\ Fills(c)

\* The queries of wifi_drv.cpp and server_drv.cpp with fixed lengths.
LEMMA DriverRows ==
  ASSUME SizesAssumption
  PROVE  /\ Good(AddressQueries) /\ Good(LinkCommands) /\ Good(NetworkQueries)
         /\ Good(ScanCommands) /\ Good(ItemQueries) /\ Good(HostCommands)
         /\ Good({PowerCommand, DigitalRead, AnalogRead}) /\ Good({UpdateCommand})
         /\ Good(SocketQueries) /\ Good({AvailQuery, SentQuery, GetSocket})
<1>1. Good(AddressQueries)
  BY QueryRow, AnswerForms DEF Good, AddressQueries
<1>2. Good(LinkCommands)
  BY QueryRow, BareRow, AnswerForms DEF Good, LinkCommands
<1>3. Good(NetworkQueries)
  BY QueryRow, AnswerForms DEF Good, NetworkQueries
<1>4. Good(ScanCommands)
  BY BareRow, AnswerForms DEF Good, ScanCommands
<1>5. Good(ItemQueries)
  BY QueryRow, AnswerForms DEF Good, ItemQueries
<1>6. Good(HostCommands)
  BY BareRow, NamedRow, AnswerForms, SizesAssumption DEF Good, HostCommands
<1>7. Good({PowerCommand, DigitalRead, AnalogRead})
  BY QueryRow, AnswerForms DEF Good, PowerCommand, DigitalRead, AnalogRead
<1>8. Good({UpdateCommand})
  BY BareRow, AnswerForms DEF Good, UpdateCommand
<1>9. Good(SocketQueries)
  BY QueryRow, AnswerForms DEF Good, SocketQueries
<1>10. Good({AvailQuery, SentQuery, GetSocket})
  BY QueryRow, BareRow, AnswerForms DEF Good, AvailQuery, SentQuery, GetSocket
<1>11. QED BY <1>1, <1>2, <1>3, <1>4, <1>5, <1>6, <1>7, <1>8, <1>9, <1>10
\* SET_PASSPHRASE and SET_KEY, whose padding depends on two lengths.
LEMMA JoinRows ==
  ASSUME SizesAssumption, NEW n \in Sizes, NEW m \in Sizes
  PROVE  LET two == Command("SET_PASSPHRASE", 2, <<Param(n), Last(Param(m))>>,
                            UpTo4(6 + n + m), One("failure"))
             three == Command("SET_KEY", 3, <<Param(n), Param(1), Last(Param(m))>>,
                              UpTo4(8 + n + m), One("failure"))
         IN  WellFormed(two) /\ Fills(two) /\ WellFormed(three) /\ Fills(three)
<1>1. n \in Nat /\ m \in Nat
  BY SizesAssumption
<1>2. 6 + n + m \in Nat /\ 3 + (n + 1) + (m + 2) = 6 + n + m
  BY <1>1
<1>3. 8 + n + m \in Nat /\ 3 + (n + 1) + (1 + 1) + (m + 2) = 8 + n + m
  BY <1>1
<1>4. (3 + Written(Param(n)) + Written(Last(Param(m))) + UpTo4(6 + n + m)) % 4 = 0
  BY <1>1, <1>2, ParamType, UpTo4Type
<1>5. (3 + Written(Param(n)) + Written(Param(1)) + Written(Last(Param(m)))
         + UpTo4(8 + n + m)) % 4 = 0
  BY <1>1, <1>3, ParamType, UpTo4Type
<1>6. QED BY <1>1, <1>2, <1>3, <1>4, <1>5, ParamType, UpTo4Type, RowOf2, RowOf3, AnswerForms

\* The command that configures an address, and those with fixed parameters.
LEMMA ConfigRows ==
  ASSUME SizesAssumption PROVE Good(ConfigCommands)
<1>1. WellFormed(Command("SET_IP_CONFIG", 4,
                         <<Param(1), Param(4), Param(4), Last(Param(4))>>, 3, One("failure")))
  BY FixedParams, RowOf4, AnswerForms
<1>2. Fills(Command("SET_IP_CONFIG", 4,
                    <<Param(1), Param(4), Param(4), Last(Param(4))>>, 3, One("failure")))
  <2>1. (3 + Written(Param(1)) + Written(Param(4)) + Written(Param(4)) + Written(Last(Param(4)))
           + 3) % 4 = 0
    BY FixedParams
  <2>2. QED BY <2>1, FixedParams, RowOf4, AnswerForms
<1>3. LET c == Command("SET_DNS_CONFIG", 3, <<Param(1), Param(4), Last(Param(4))>>, 0,
                       One("failure"))
      IN  WellFormed(c) /\ Fills(c)
  <2>1. (3 + Written(Param(1)) + Written(Param(4)) + Written(Last(Param(4))) + 0) % 4 = 0
    BY FixedParams
  <2>2. QED BY <2>1, FixedParams, RowOf3, AnswerForms
<1>4. QED BY <1>1, <1>2, <1>3, NamedRow, AnswerForms, SizesAssumption DEF Good, ConfigCommands

\* The commands of the access point, whose padding is counted from a start four bytes off.
LEMMA AccessPointRows ==
  ASSUME SizesAssumption PROVE Good(AccessPointCommands)
<1>1. ASSUME NEW n \in Nat
      PROVE  LET c == Command("SET_AP_NET", 2, <<Param(n), Last(Param(1))>>, UpTo4(3 + n),
                              One("failure"))
             IN  WellFormed(c) /\ Fills(c)
  <2>1. 3 + n \in Nat /\ 3 + (n + 1) + (1 + 2) = 3 + n + 4
    OBVIOUS
  <2>2. (3 + Written(Param(n)) + Written(Last(Param(1))) + UpTo4(3 + n)) % 4 = 0
    BY <2>1, ParamType, UpTo4Type
  <2>3. QED BY <2>1, <2>2, ParamType, UpTo4Type, RowOf2, AnswerForms
<1>2. ASSUME NEW n \in Nat, NEW m \in Nat
      PROVE  LET c == Command("SET_AP_PASSPHRASE", 3, <<Param(n), Param(m), Last(Param(1))>>,
                              UpTo4(4 + n + m), One("failure"))
             IN  WellFormed(c) /\ Fills(c)
  <2>1. 4 + n + m \in Nat /\ 3 + (n + 1) + (m + 1) + (1 + 2) = 4 + n + m + 4
    OBVIOUS
  <2>2. (3 + Written(Param(n)) + Written(Param(m)) + Written(Last(Param(1)))
           + UpTo4(4 + n + m)) % 4 = 0
    BY <2>1, ParamType, UpTo4Type
  <2>3. QED BY <2>1, <2>2, ParamType, UpTo4Type, RowOf3, AnswerForms
<1>3. SUFFICES ASSUME NEW c \in AccessPointCommands PROVE WellFormed(c) /\ Fills(c)
  BY DEF Good
<1>4. \/ \E n \in Sizes :
            c = Command("SET_AP_NET", 2, <<Param(n), Last(Param(1))>>, UpTo4(3 + n), One("failure"))
      \/ \E n, m \in Sizes :
            c = Command("SET_AP_PASSPHRASE", 3, <<Param(n), Param(m), Last(Param(1))>>,
                        UpTo4(4 + n + m), One("failure"))
  BY DEF AccessPointCommands
<1>5. QED BY <1>1, <1>2, <1>4, SizesAssumption

\* PING, SET_DEBUG and GET_TEMPERATURE.
LEMMA ModuleRows == Good(ModuleCommands)
<1>1. LET c == Command("PING", 2, <<Param(4), Last(Param(1))>>, 1, One("pingError"))
      IN  WellFormed(c) /\ Fills(c)
  <2>1. (3 + Written(Param(4)) + Written(Last(Param(1))) + 1) % 4 = 0
    BY FixedParams
  <2>2. QED BY <2>1, FixedParams, RowOf2, AnswerForms
<1>2. QED BY <1>1, QueryRow, BareRow, AnswerForms DEF Good, ModuleCommands

\* The file commands that pad as their comment says.
LEMMA FileRows ==
  ASSUME SizesAssumption PROVE Good(FileCommands) /\ Good(FileQueries)
<1>1. ASSUME NEW n \in Nat, NEW m \in Nat, NEW code \in {"DOWNLOAD_FILE", "RENAME_FILE"}
      PROVE  LET c == Command(code, 2, <<Param(n), Last(Param(m))>>, UpTo4(6 + n + m),
                              One("failure"))
             IN  WellFormed(c) /\ Fills(c)
  <2>1. 6 + n + m \in Nat /\ 3 + (n + 1) + (m + 2) = 6 + n + m
    OBVIOUS
  <2>2. (3 + Written(Param(n)) + Written(Last(Param(m))) + UpTo4(6 + n + m)) % 4 = 0
    BY <2>1, ParamType, UpTo4Type
  <2>3. QED BY <2>1, <2>2, ParamType, UpTo4Type, RowOf2, AnswerForms
<1>2. ASSUME NEW n \in Nat, NEW code \in {"READ_FILE", "DELETE_FILE", "EXISTS_FILE"}
      PROVE  LET c == Command(code, 3, <<Param(4), Param(4), Last(Param(n))>>,
                              UpTo4(4 + 3 + 8 + n), One("zero"))
             IN  WellFormed(c) /\ Fills(c)
  <2>1. 4 + 3 + 8 + n \in Nat /\ 3 + (4 + 1) + (4 + 1) + (n + 2) = 4 + 3 + 8 + n
    OBVIOUS
  <2>2. (3 + Written(Param(4)) + Written(Param(4)) + Written(Last(Param(n)))
           + UpTo4(4 + 3 + 8 + n)) % 4 = 0
    BY <2>1, ParamType, UpTo4Type
  <2>3. QED BY <2>1, <2>2, ParamType, UpTo4Type, RowOf3, AnswerForms
<1>3. Good(FileCommands)
  <2>1. \A c \in FileCommands :
          \/ \E n \in Sizes : c = Named("DOWNLOAD_OTA", n, One("failure"))
          \/ \E code \in {"DOWNLOAD_FILE", "RENAME_FILE"}, n, m \in Sizes :
               c = Command(code, 2, <<Param(n), Last(Param(m))>>, UpTo4(6 + n + m), One("failure"))
    BY DEF FileCommands
  <2>2. \A n \in Sizes : LET c == Named("DOWNLOAD_OTA", n, One("failure"))
                        IN  WellFormed(c) /\ Fills(c)
    BY NamedRow, AnswerForms, SizesAssumption
  <2>3. SUFFICES ASSUME NEW c \in FileCommands PROVE WellFormed(c) /\ Fills(c)
    BY DEF Good
  <2>4. CASE \E n \in Sizes : c = Named("DOWNLOAD_OTA", n, One("failure"))
    BY <2>2, <2>4
  <2>5. CASE \E code \in {"DOWNLOAD_FILE", "RENAME_FILE"}, n, m \in Sizes :
               c = Command(code, 2, <<Param(n), Last(Param(m))>>, UpTo4(6 + n + m),
                           One("failure"))
    <3>1. PICK code \in {"DOWNLOAD_FILE", "RENAME_FILE"}, n \in Sizes, m \in Sizes :
               c = Command(code, 2, <<Param(n), Last(Param(m))>>, UpTo4(6 + n + m),
                           One("failure"))
      BY <2>5
    <3>2. n \in Nat /\ m \in Nat
      BY SizesAssumption
    <3>3. QED BY <1>1, <3>1, <3>2
  <2>6. QED BY <2>1, <2>4, <2>5
<1>4. Good(FileQueries)
  <2>1. SUFFICES ASSUME NEW c \in FileQueries PROVE WellFormed(c) /\ Fills(c)
    BY DEF Good
  <2>2. PICK code \in {"READ_FILE", "DELETE_FILE", "EXISTS_FILE"}, n \in Sizes :
               c = Command(code, 3, <<Param(4), Param(4), Last(Param(n))>>,
                           UpTo4(4 + 3 + 8 + n), One("zero"))
    BY DEF FileQueries
  <2>3. n \in Nat
    BY SizesAssumption
  <2>4. QED BY <1>2, <2>2, <2>3
<1>5. QED BY <1>3, <1>4

\* The commands of server_drv.cpp that open, read and write sockets.
LEMMA ServerRows ==
  ASSUME SizesAssumption PROVE Good(StartCommands) /\ Good(ReadCommands) /\ Good(WriteCommands)
<1>1. LET c == Command("START_SERVER_TCP", 3, <<Param(2), Param(1), Last(Param(1))>>, 1,
                       One("unset"))
      IN  WellFormed(c) /\ Fills(c)
  <2>1. (3 + Written(Param(2)) + Written(Param(1)) + Written(Last(Param(1))) + 1) % 4 = 0
    BY FixedParams
  <2>2. QED BY <2>1, FixedParams, RowOf3, AnswerForms
<1>2. ASSUME NEW code \in {"START_SERVER_TCP", "START_CLIENT_TCP"}
      PROVE  LET c == Command(code, 4, <<Param(4), Param(2), Param(1), Last(Param(1))>>, 0,
                              One("unset"))
             IN  WellFormed(c) /\ Fills(c)
  <2>1. (3 + Written(Param(4)) + Written(Param(2)) + Written(Param(1)) + Written(Last(Param(1)))
           + 0) % 4 = 0
    BY FixedParams
  <2>2. QED BY <2>1, FixedParams, RowOf4, AnswerForms
<1>3. ASSUME NEW n \in Nat
      PROVE  LET c == Command("START_CLIENT_TCP", 5,
                              <<Param(n), Param(4), Param(2), Param(1), Last(Param(1))>>,
                              UpTo4(17 + n), One("unset"))
             IN  WellFormed(c) /\ Fills(c)
  <2>1. 17 + n \in Nat /\ 3 + (n + 1) + (4 + 1) + (2 + 1) + (1 + 1) + (1 + 2) = 17 + n
    OBVIOUS
  <2>2. 3 + Written(Param(n)) + Written(Param(4)) + Written(Param(2)) + Written(Param(1))
          + Written(Last(Param(1))) = 17 + n
    BY FixedParams, ParamType
  <2>3. (3 + Written(Param(n)) + Written(Param(4)) + Written(Param(2)) + Written(Param(1))
           + Written(Last(Param(1))) + UpTo4(17 + n)) % 4 = 0
    BY <2>1, <2>2, UpTo4Type
  <2>4. /\ \A p \in {Param(n), Param(4), Param(2), Param(1)} : p \in Parameter /\ ~ p.last
        /\ Last(Param(1)) \in Parameter /\ Last(Param(1)).last /\ UpTo4(17 + n) \in Nat
    BY <2>1, FixedParams, ParamType, UpTo4Type
  <2>5. QED BY <2>3, <2>4, RowOf5, AnswerForms
<1>4. ASSUME NEW n \in Nat, NEW code \in {"INSERT_DATABUF", "SEND_DATA_TCP"}
      PROVE  LET c == Command(code, 2, <<Buffer(1), Last(Buffer(n))>>, UpTo4(9 + n), Data("zero"))
             IN  WellFormed(c) /\ Fills(c)
  <2>1. 9 + n \in Nat /\ 3 + (1 + 2) + (n + 3) = 9 + n
    OBVIOUS
  <2>2. (3 + Written(Buffer(1)) + Written(Last(Buffer(n))) + UpTo4(9 + n)) % 4 = 0
    BY <2>1, ParamType, UpTo4Type
  <2>3. QED BY <2>1, <2>2, ParamType, UpTo4Type, RowOf2, AnswerForms
<1>5. LET c == Command("GET_DATA_TCP", 2, <<Param(1), Last(Param(2))>>, 3, Data("noData"))
          d == Command("GET_DATABUF_TCP", 2, <<Buffer(1), Last(Buffer(2))>>, 1, Data("requested"))
      IN  WellFormed(c) /\ Fills(c) /\ WellFormed(d) /\ Fills(d)
  <2>1. (3 + Written(Param(1)) + Written(Last(Param(2))) + 3) % 4 = 0
    BY FixedParams
  <2>2. (3 + Written(Buffer(1)) + Written(Last(Buffer(2))) + 1) % 4 = 0
    BY FixedParams
  <2>3. Buffer(1) \in Parameter /\ ~ Buffer(1).last
        /\ Last(Buffer(2)) \in Parameter /\ Last(Buffer(2)).last
    BY ParamType
  <2>4. QED BY <2>1, <2>2, <2>3, FixedParams, RowOf2, AnswerForms
<1>6. Good(StartCommands)
  BY <1>1, <1>2, <1>3, SizesAssumption DEF Good, StartCommands
<1>7. Good(ReadCommands)
  BY <1>5 DEF Good, ReadCommands
<1>8. Good(WriteCommands)
  <2>1. \A c \in WriteCommands :
          \/ \E code \in {"INSERT_DATABUF", "SEND_DATA_TCP"}, n \in Sizes :
               c = Command(code, 2, <<Buffer(1), Last(Buffer(n))>>, UpTo4(9 + n), Data("zero"))
          \/ c = Query("SEND_DATA_UDP", Data("zero"))
    BY DEF WriteCommands
  <2>2. LET c == Query("SEND_DATA_UDP", Data("zero")) IN WellFormed(c) /\ Fills(c)
    BY QueryRow, AnswerForms
  <2>3. SUFFICES ASSUME NEW c \in WriteCommands PROVE WellFormed(c) /\ Fills(c)
    BY DEF Good
  <2>4. CASE \E code \in {"INSERT_DATABUF", "SEND_DATA_TCP"}, n \in Sizes :
               c = Command(code, 2, <<Buffer(1), Last(Buffer(n))>>, UpTo4(9 + n), Data("zero"))
    <3>1. PICK code \in {"INSERT_DATABUF", "SEND_DATA_TCP"}, n \in Sizes :
               c = Command(code, 2, <<Buffer(1), Last(Buffer(n))>>, UpTo4(9 + n), Data("zero"))
      BY <2>4
    <3>2. n \in Nat
      BY SizesAssumption
    <3>3. QED BY <1>4, <3>1, <3>2
  <2>5. QED BY <2>1, <2>2, <2>4
<1>9. QED BY <1>6, <1>7, <1>8

\* Every row of PaddedCommands is a whole command that fills its transfer.
LEMMA PaddedRows ==
  ASSUME SizesAssumption PROVE Good(PaddedCommands)
<1>1. Good(JoinCommands)
  <2>1. \A c \in JoinCommands :
          \/ \E n \in Sizes : c = Named("SET_NET", n, One("failure"))
          \/ \E n, m \in Sizes :
               \/ c = Command("SET_PASSPHRASE", 2, <<Param(n), Last(Param(m))>>,
                              UpTo4(6 + n + m), One("failure"))
               \/ c = Command("SET_KEY", 3, <<Param(n), Param(1), Last(Param(m))>>,
                              UpTo4(8 + n + m), One("failure"))
    BY DEF JoinCommands
  <2>2. \A n \in Sizes : LET c == Named("SET_NET", n, One("failure"))
                        IN  WellFormed(c) /\ Fills(c)
    BY NamedRow, AnswerForms, SizesAssumption
  <2>3. SUFFICES ASSUME NEW c \in JoinCommands PROVE WellFormed(c) /\ Fills(c)
    BY DEF Good
  <2>4. CASE \E n \in Sizes : c = Named("SET_NET", n, One("failure"))
    BY <2>2, <2>4
  <2>5. CASE ~ \E n \in Sizes : c = Named("SET_NET", n, One("failure"))
    <3>1. PICK n \in Sizes, m \in Sizes :
               \/ c = Command("SET_PASSPHRASE", 2, <<Param(n), Last(Param(m))>>,
                              UpTo4(6 + n + m), One("failure"))
               \/ c = Command("SET_KEY", 3, <<Param(n), Param(1), Last(Param(m))>>,
                              UpTo4(8 + n + m), One("failure"))
      BY <2>1, <2>5
    <3>2. QED BY <3>1, JoinRows
  <2>6. QED BY <2>4, <2>5
<1> DEFINE Lengthy == JoinCommands \cup ConfigCommands \cup AccessPointCommands
                         \cup ModuleCommands \cup FileCommands \cup FileQueries
                         \cup StartCommands \cup ReadCommands \cup WriteCommands
           Short == AddressQueries \cup LinkCommands \cup NetworkQueries \cup ScanCommands
                      \cup ItemQueries \cup HostCommands
                      \cup {PowerCommand, DigitalRead, AnalogRead} \cup {UpdateCommand}
                      \cup SocketQueries \cup {AvailQuery, SentQuery, GetSocket}
<1>2. Good(Lengthy)
  BY <1>1, ConfigRows, AccessPointRows, ModuleRows, FileRows, ServerRows DEF Good
<1>3. Good(Short)
  BY DriverRows DEF Good
<1>4. PaddedCommands \subseteq Lengthy \cup Short
  BY DEF PaddedCommands
<1> HIDE DEF Lengthy, Short
<1>5. QED BY <1>2, <1>3, <1>4 DEF Good

\* The rows whose padding is wrong are whole commands all the same.
LEMMA UnpaddedRows ==
  ASSUME SizesAssumption PROVE \A c \in UnpaddedCommands : WellFormed(c)
<1>1. WellFormed(PinMode) /\ WellFormed(DigitalWrite) /\ WellFormed(AnalogWrite)
  BY ParamType, RowOf2, AnswerForms DEF PinMode, DigitalWrite, AnalogWrite, PinWrite
<1>2. ASSUME NEW n \in Nat, NEW m \in Nat
      PROVE  WellFormed(Command("SET_ENT", 6,
                  <<Buffer(1), Buffer(n), Buffer(0), Buffer(0), Buffer(0), Last(Buffer(m))>>,
                  UpTo4(15 + 1 + n + m), One("failure")))
  <2>1. 15 + 1 + n + m \in Nat /\ 0 \in Nat /\ 1 \in Nat
    OBVIOUS
  <2>2. QED BY <2>1, ParamType, UpTo4Type, RowOf6, AnswerForms
<1>3. ASSUME NEW n \in Nat, NEW m \in Nat
      PROVE  WellFormed(Command("WRITE_FILE", 4,
                  <<Param(4), Param(4), Param(n), Last(Param(m))>>,
                  UpTo4(4 + 4 + 8 + n), One("zero")))
  <2>1. 4 + 4 + 8 + n \in Nat
    OBVIOUS
  <2>2. /\ Param(4) \in Parameter /\ ~ Param(4).last /\ Param(n) \in Parameter /\ ~ Param(n).last
        /\ Last(Param(m)) \in Parameter /\ Last(Param(m)).last
        /\ UpTo4(4 + 4 + 8 + n) \in Nat
    BY <2>1, FixedParams, ParamType, UpTo4Type
  <2>3. QED BY <2>2, RowOf4, AnswerForms
<1>4. \A c \in UnpaddedCommands :
        \/ c \in {PinMode, DigitalWrite, AnalogWrite}
        \/ \E n, m \in Sizes :
             \/ c = Command("SET_ENT", 6,
                   <<Buffer(1), Buffer(n), Buffer(0), Buffer(0), Buffer(0), Last(Buffer(m))>>,
                   UpTo4(15 + 1 + n + m), One("failure"))
             \/ c = Command("WRITE_FILE", 4, <<Param(4), Param(4), Param(n), Last(Param(m))>>,
                   UpTo4(4 + 4 + 8 + n), One("zero"))
  BY DEF UnpaddedCommands, EnterpriseCommands, FileWrites
<1>5. SUFFICES ASSUME NEW c \in UnpaddedCommands PROVE WellFormed(c)
  OBVIOUS
<1>6. CASE c \in {PinMode, DigitalWrite, AnalogWrite}
  BY <1>1, <1>6
<1>7. ASSUME NEW n \in Sizes, NEW m \in Sizes,
             \/ c = Command("SET_ENT", 6,
                   <<Buffer(1), Buffer(n), Buffer(0), Buffer(0), Buffer(0), Last(Buffer(m))>>,
                   UpTo4(15 + 1 + n + m), One("failure"))
             \/ c = Command("WRITE_FILE", 4, <<Param(4), Param(4), Param(n), Last(Param(m))>>,
                   UpTo4(4 + 4 + 8 + n), One("zero"))
      PROVE  WellFormed(c)
  <2>1. n \in Nat /\ m \in Nat
    BY SizesAssumption
  <2>2. QED BY <1>2, <1>3, <1>7, <2>1
<1>8. QED BY <1>4, <1>6, <1>7

\* What the table says of a command the sketch uses.
LEMMA DrivenRows ==
  ASSUME SizesAssumption, SpiAssumption, NEW c \in Driven
  PROVE  WellFormed(c) /\ (c \notin UnpaddedCommands => Fills(c))
BY PaddedRows, UnpaddedRows DEF Good, SpiAssumption

\* A parameter has a number of bytes.
LEMMA WrittenType ==
  ASSUME NEW c, WellFormed(c), NEW i \in 1 .. c.count
  PROVE  Written(c.sends[i]) \in Nat
<1>1. c.sends[i] \in Parameter
  BY DEF WellFormed
<1>2. c.sends[i].head \in Nat /\ c.sends[i].body \in Nat
  BY <1>1 DEF Parameter
<1>3. QED BY <1>2 DEF Written

\* So has the part of a command before any parameter.
LEMMA WrittenNat ==
  ASSUME NEW c, WellFormed(c), NEW i \in 1 .. 7
  PROVE  WrittenBefore(c, i) \in Nat
<1>1. Len(c.sends) = c.count /\ c.count \in 0 .. 6
  BY DEF WellFormed
<1>2. \A k \in 1 .. c.count : Written(c.sends[k]) \in Nat
  BY WrittenType
<1>3. \A k \in 1 .. 6 : PartBefore(c, i, k) \in Nat
  BY <1>1, <1>2 DEF PartBefore
<1>4. QED BY <1>3 DEF WrittenBefore

\* A parameter more adds its bytes to what is written.
LEMMA WrittenStep ==
  ASSUME NEW c, WellFormed(c), NEW i \in 1 .. c.count
  PROVE  WrittenBefore(c, i + 1) = WrittenBefore(c, i) + Written(c.sends[i])
<1>1. c.count \in 1 .. 6 /\ Len(c.sends) = c.count /\ c.count # 0
  BY DEF WellFormed
<1>2. \A k \in 1 .. c.count : Written(c.sends[k]) \in Nat
  BY WrittenType
<1>3. \A k \in 1 .. 6 : PartBefore(c, i, k) \in Nat
  BY <1>1, <1>2 DEF PartBefore
<1>4. \A k \in 1 .. 6 : k # i => PartBefore(c, i + 1, k) = PartBefore(c, i, k)
  BY <1>1, <1>2 DEF PartBefore
<1>5. PartBefore(c, i, i) = 0 /\ PartBefore(c, i + 1, i) = Written(c.sends[i])
  BY <1>1, <1>2 DEF PartBefore
<1>6. Written(c.sends[i]) \in Nat
  BY <1>2
<1>7. i = 1 \/ i = 2 \/ i = 3 \/ i = 4 \/ i = 5 \/ i = 6
  BY <1>1
<1>8. CASE i = 1
  BY <1>3, <1>4, <1>5, <1>6, <1>8 DEF WrittenBefore
<1>9. CASE i = 2
  BY <1>3, <1>4, <1>5, <1>6, <1>9 DEF WrittenBefore
<1>10. CASE i = 3
  BY <1>3, <1>4, <1>5, <1>6, <1>10 DEF WrittenBefore
<1>11. CASE i = 4
  BY <1>3, <1>4, <1>5, <1>6, <1>11 DEF WrittenBefore
<1>12. CASE i = 5
  BY <1>3, <1>4, <1>5, <1>6, <1>12 DEF WrittenBefore
<1>13. CASE i = 6
  BY <1>3, <1>4, <1>5, <1>6, <1>13 DEF WrittenBefore
<1>14. QED BY <1>7, <1>8, <1>9, <1>10, <1>11, <1>12, <1>13

\* Before the first parameter there is the head of the command.
LEMMA WrittenFirst ==
  ASSUME NEW c, WellFormed(c)
  PROVE  WrittenBefore(c, 1) = 3 + (IF c.count = 0 THEN 1 ELSE 0)
<1>1. c.count \in 0 .. 6 /\ Len(c.sends) = c.count
  BY DEF WellFormed
<1>2. QED BY <1>1 DEF WrittenBefore, PartBefore

\* The count of bytes may be kept modulo 4.
LEMMA ModAdd ==
  ASSUME NEW a \in Nat, NEW b \in Nat
  PROVE  (a % 4) \in 0 .. 3 /\ ((a % 4) + b) % 4 = (a + b) % 4
OBVIOUS

\* The numbers of the transactions go round between 1 and MaxIssued.
LEMMA IssuedType ==
  ASSUME SpiAssumption, TypeOKS
  PROVE  /\ NextNumber \in 0 .. MaxIssued /\ NextNumber # 0
         /\ 0 \in 0 .. MaxIssued /\ 0 \in 0 .. MaxFaults
<1>1. issued \in Nat /\ MaxIssued \in Nat /\ MaxIssued > 1 /\ MaxFaults \in Nat
  BY DEF TypeOKS, HostTypes, SpiAssumption
<1>2. QED BY <1>1 DEF NextNumber

\* The table of MayBe, row by row.
LEMMA MayBeAt ==
  /\ MayBe["idle"] = {"off", "booting", "idle", "rearming"}
  /\ MayBe["waitReady"] = {"booting", "idle", "rearming"}
  /\ MayBe["select"] = {"idle", "receiving"}
  /\ MayBe["header"] = {"receiving"} /\ MayBe["send"] = {"receiving"}
  /\ MayBe["sent"] = {"receiving"}
  /\ MayBe["waitReply"] = {"working", "answered"}
  /\ MayBe["selectReply"] = {"answered", "replying"}
  /\ MayBe["start"] = {"replying"} /\ MayBe["code"] = {"replying"}
  /\ MayBe["count"] = {"replying"}
BY DEF MayBe, Places

\* The module before it has heard or said anything.
LEMMA NoJobFields ==
  /\ NoReply.id = 0 /\ NoReply.count = 0 /\ NoReply.kind = "none"
  /\ NoneHeard.id = 0
BY DEF NoReply, NoneHeard

-----------------------------------------------------------------------------
\* Both sides of the handshake stay at the same transfer of the same command, and the call
\* that has come back last returned data of its own transaction: one step per action.
LEMMA SpiInductive ==
  ASSUME SizesAssumption, SpiAssumption PROVE SpecS => [](SpiInv /\ OwnReply)
<1>1. InitS => SpiInv /\ OwnReply
  <2> SUFFICES ASSUME InitS PROVE SpiInv /\ OwnReply
    OBVIOUS
  <2>1. TypeOKS
    <3>1. 0 \in 0 .. MaxIssued /\ 0 \in 0 .. MaxFaults
      BY DEF SpiAssumption
    <3>2. HostTypes
      BY <3>1 DEF InitS, HostTypes, Places
    <3>3. ModuleTypes
      BY <3>1, NoJobFields DEF InitS, ModuleTypes, ModuleStates
    <3>4. Flags
      BY Zenon DEF InitS, Flags
    <3>5. QED BY <3>2, <3>3, <3>4 DEF TypeOKS
  <2>2. TransfersMatch /\ Answering /\ Progress /\ OwnReply
    BY DEF InitS, TransfersMatch, Answering, Progress, OwnReply
  <2>3. Handshake
    BY MayBeAt DEF InitS, Handshake
  <2>4. QED BY <2>1, <2>2, <2>3 DEF SpiInv
<1>2. SpiInv /\ OwnReply /\ [NextS]_spiVars => SpiInv' /\ OwnReply'
  <2> SUFFICES ASSUME SpiInv, OwnReply, [NextS]_spiVars PROVE SpiInv' /\ OwnReply'
    OBVIOUS
  <2>0. NextNumber \in 0 .. MaxIssued /\ NextNumber # 0 /\ 0 \in 0 .. MaxIssued
    BY IssuedType DEF SpiInv
  <2>1. ASSUME NEW c \in Driven, Issue(c) PROVE SpiInv' /\ OwnReply'
    <3>0. /\ at' = "waitReady" /\ job' = c /\ item' = 1 /\ size' = 0 /\ ended' = 0
          /\ issued' = NextNumber /\ result' = result
      BY <2>1 DEF Issue
    <3>1. TypeOKS'
      <4>1. HostTypes'
        BY <2>0, <3>0 DEF SpiInv, TypeOKS, HostTypes, Places
      <4>2. ModuleTypes'
        BY <2>1, IssuedType DEF SpiInv, TypeOKS, ModuleTypes, ModuleStates, Issue, moduleVars
      <4>3. Flags'
        BY <2>1, Zenon DEF SpiInv, TypeOKS, Flags, Issue, moduleVars
      <4>4. QED BY <4>1, <4>2, <4>3 DEF TypeOKS
    <3>2. Handshake' /\ TransfersMatch'
      BY <2>1, MayBeAt DEF SpiInv, Issue, Handshake, TransfersMatch, moduleVars
    <3>3. Answering'
      BY <2>1, MayBeAt DEF SpiInv, Issue, Handshake, Answering, moduleVars
    <3>4. Progress'
      BY <2>1, IssuedType DEF SpiInv, Issue, Progress
    <3>5. OwnReply'
      BY <2>1 DEF Issue, OwnReply
    <3>6. QED BY <3>1, <3>2, <3>3, <3>4, <3>5 DEF SpiInv
  <2>2. CASE End
    <3>1. TypeOKS'
      <4>1. HostTypes'
        BY <2>2, NoJobFields, IssuedType DEF SpiInv, TypeOKS, HostTypes, Places, End
      <4>2. ModuleTypes'
        BY <2>2, NoJobFields, IssuedType DEF SpiInv, TypeOKS, ModuleTypes, ModuleStates, End
      <4>3. Flags'
        BY <2>2, Zenon DEF SpiInv, TypeOKS, Flags, End
      <4>4. QED BY <4>1, <4>2, <4>3 DEF TypeOKS
    <3>2. Handshake' /\ TransfersMatch'
      BY <2>2, MayBeAt DEF SpiInv, End, Handshake, TransfersMatch
    <3>3. Answering'
      BY <2>2, MayBeAt DEF SpiInv, End, Handshake, Answering
    <3>4. Progress' /\ OwnReply'
      BY <2>2 DEF SpiInv, Progress, OwnReply, End
    <3>5. QED BY <3>1, <3>2, <3>3, <3>4 DEF SpiInv
  <2>3. CASE SlaveSelect
    <3>1. TypeOKS'
      <4>1. HostTypes'
        BY <2>3 DEF SpiInv, TypeOKS, HostTypes, Places, SlaveSelect, moduleVars
      <4>2. ModuleTypes'
        BY <2>3 DEF SpiInv, TypeOKS, ModuleTypes, ModuleStates, SlaveSelect, moduleVars
      <4>3. Flags'
        BY <2>3, Zenon DEF SpiInv, TypeOKS, Flags, SlaveSelect, moduleVars
      <4>4. QED BY <4>1, <4>2, <4>3 DEF TypeOKS
    <3>2. Handshake' /\ TransfersMatch'
      BY <2>3, MayBeAt DEF SpiInv, SlaveSelect, MayRead, Handshake, TransfersMatch, moduleVars
    <3>3. Answering'
      BY <2>3 DEF SpiInv, SlaveSelect, Answering, moduleVars
    <3>4. Progress' /\ OwnReply'
      BY <2>3 DEF SpiInv, SlaveSelect, Progress, OwnReply
    <3>5. QED BY <3>1, <3>2, <3>3, <3>4 DEF SpiInv
  <2>4. CASE SelectEnds
    <3>1. TypeOKS'
      <4>1. HostTypes'
        BY <2>4 DEF SpiInv, TypeOKS, HostTypes, Places, SelectEnds, moduleVars
      <4>2. ModuleTypes'
        BY <2>4 DEF SpiInv, TypeOKS, ModuleTypes, ModuleStates, SelectEnds, moduleVars
      <4>3. Flags'
        BY <2>4, Zenon DEF SpiInv, TypeOKS, Flags, SelectEnds, moduleVars
      <4>4. QED BY <4>1, <4>2, <4>3 DEF TypeOKS
    <3>2. Handshake' /\ TransfersMatch'
      BY <2>4, MayBeAt DEF SpiInv, SelectEnds, Busy, Handshake, TransfersMatch, moduleVars
    <3>3. Answering'
      BY <2>4 DEF SpiInv, SelectEnds, Answering, moduleVars
    <3>4. Progress' /\ OwnReply'
      BY <2>4 DEF SpiInv, SelectEnds, Progress, OwnReply
    <3>5. QED BY <3>1, <3>2, <3>3, <3>4 DEF SpiInv
  <2>5. CASE SendCmd
    <3>1. WellFormed(job)
      BY <2>5, DrivenRows DEF SpiInv, SendCmd, Progress
    <3>2. TypeOKS'
      <4>1. HostTypes'
        BY <2>5 DEF SpiInv, TypeOKS, HostTypes, Places, SendCmd, Closing, moduleVars
      <4>2. ModuleTypes'
        BY <2>5 DEF SpiInv, TypeOKS, ModuleTypes, ModuleStates, SendCmd, Closing, moduleVars
      <4>3. Flags'
        BY <2>5, Zenon DEF SpiInv, TypeOKS, Flags, SendCmd, Closing, moduleVars
      <4>4. QED BY <4>1, <4>2, <4>3 DEF TypeOKS
    <3>3. Handshake' /\ TransfersMatch'
      BY <2>5, MayBeAt DEF SpiInv, SendCmd, Handshake, TransfersMatch, moduleVars
    <3>4. Answering' /\ OwnReply'
      BY <2>5 DEF SpiInv, SendCmd, Answering, OwnReply, moduleVars
    <3>5. Progress'
      <4>1. item = 1 /\ Len(job.sends) = job.count /\ job.count \in 0 .. 6
        BY <2>5, <3>1 DEF SpiInv, SendCmd, Progress, WellFormed
      <4>2. size' = (WrittenBefore(job, 1) + 0) % 4
        BY <2>5, <3>1, WrittenFirst DEF SendCmd, Closing
      <4>3. ended' = IF 1 > Len(job.sends) THEN 1 ELSE 0
        BY <2>5, <4>1 DEF SendCmd, Closing
      <4>4. at' = "send" /\ job' = job /\ item' = item /\ issued' = issued
        BY <2>5 DEF SendCmd
      <4>5. QED BY <2>5, <4>1, <4>2, <4>3, <4>4 DEF SpiInv, Progress, SendCmd
    <3>6. QED BY <3>2, <3>3, <3>4, <3>5 DEF SpiInv
  <2>6. CASE SendParam
    <3>1. WellFormed(job)
      BY <2>6, DrivenRows DEF SpiInv, SendParam, Progress
    <3>2. item \in 1 .. job.count /\ Len(job.sends) = job.count /\ job.count \in 0 .. 6
      BY <2>6, <3>1 DEF SpiInv, TypeOKS, HostTypes, SendParam, WellFormed
    <3>3. size' \in 0 .. 3 /\ size' = (WrittenBefore(job, item + 1) + 0) % 4
      <4>1. WrittenBefore(job, item) \in Nat /\ WrittenBefore(job, item + 1) \in Nat
            /\ Written(job.sends[item]) \in Nat
        <5>1. item \in 1 .. 7 /\ item + 1 \in 1 .. 7
          BY <3>2
        <5>2. QED BY <3>1, <3>2, <5>1, WrittenNat, WrittenType
      <4>2. size = WrittenBefore(job, item) % 4
        BY <2>6, <4>1 DEF SpiInv, Progress, SendParam
      <4>3. size' = (size + Written(job.sends[item])) % 4
        BY <2>6 DEF SendParam
      <4>4. size' = (WrittenBefore(job, item) + Written(job.sends[item])) % 4 /\ size' \in 0 .. 3
        BY <4>1, <4>2, <4>3, ModAdd
      <4>5. QED BY <3>1, <3>2, <4>1, <4>4, WrittenStep
    <3>4. ended = 0 /\ ended' = IF item = job.count THEN 1 ELSE 0
      BY <2>6, <3>1, <3>2 DEF SpiInv, Progress, SendParam, WellFormed
    <3>5. TypeOKS'
      <4>1. HostTypes'
        BY <2>6, <3>2, <3>3, <3>4 DEF SpiInv, TypeOKS, HostTypes, SendParam, moduleVars
      <4>2. ModuleTypes'
        BY <2>6, <3>2, <3>3, <3>4 DEF SpiInv, TypeOKS, ModuleTypes, SendParam, moduleVars
      <4>3. Flags'
        BY <2>6, Zenon DEF SpiInv, TypeOKS, Flags, SendParam, moduleVars
      <4>4. QED BY <4>1, <4>2, <4>3 DEF TypeOKS
    <3>6. Handshake' /\ TransfersMatch'
      BY <2>6 DEF SpiInv, SendParam, Handshake, TransfersMatch, moduleVars
    <3>7. Answering' /\ OwnReply'
      BY <2>6 DEF SpiInv, SendParam, Answering, OwnReply, moduleVars
    <3>8. Progress'
      <4>1. at' = "send" /\ at = "send" /\ job' = job /\ item' = item + 1 /\ issued' = issued
        BY <2>6 DEF SendParam
      <4>2. QED BY <3>2, <3>3, <3>4, <4>1 DEF SpiInv, Progress
    <3>9. QED BY <3>5, <3>6, <3>7, <3>8 DEF SpiInv
  <2>7. CASE Pad
    <3>1. WellFormed(job)
      BY <2>7, DrivenRows DEF SpiInv, Pad, Progress
    <3>2. item = job.count + 1 /\ Len(job.sends) = job.count /\ job.pad \in Nat
      BY <2>7, <3>1 DEF SpiInv, TypeOKS, HostTypes, Progress, Pad, WellFormed
    <3>3. size' \in 0 .. 3 /\ size' = (WrittenBefore(job, item) + job.pad) % 4
      <4>1. WrittenBefore(job, item) \in Nat
        <5>1. job.count \in 0 .. 6
          BY <3>1 DEF WellFormed
        <5>2. item \in 1 .. 7
          BY <3>2, <5>1
        <5>3. QED BY <3>1, <5>2, WrittenNat
      <4>2. size = WrittenBefore(job, item) % 4
        BY <2>7, <4>1 DEF SpiInv, Progress, Pad
      <4>3. size' = (size + job.pad) % 4
        BY <2>7 DEF Pad
      <4>4. size' = ((WrittenBefore(job, item) % 4) + job.pad) % 4
        BY <4>2, <4>3
      <4>5. PICK c \in Nat, d \in Nat : c = WrittenBefore(job, item) /\ d = job.pad
        BY <3>2, <4>1
      <4>6. size' = (c + d) % 4 /\ c + d \in Nat
        BY <4>4, <4>5, ModAdd
      <4>7. size' \in 0 .. 3
        BY <4>6
      <4>8. QED BY <4>5, <4>6, <4>7
    <3>4. TypeOKS'
      <4>1. HostTypes'
        BY <2>7, <3>3 DEF SpiInv, TypeOKS, HostTypes, Places, Pad, moduleVars
      <4>2. ModuleTypes'
        BY <2>7, <3>3 DEF SpiInv, TypeOKS, ModuleTypes, Pad, moduleVars
      <4>3. Flags'
        BY <2>7, Zenon DEF SpiInv, TypeOKS, Flags, Pad, moduleVars
      <4>4. QED BY <4>1, <4>2, <4>3 DEF TypeOKS
    <3>5. Handshake' /\ TransfersMatch'
      BY <2>7, MayBeAt DEF SpiInv, Pad, Handshake, TransfersMatch, moduleVars
    <3>6. Answering' /\ OwnReply'
      BY <2>7 DEF SpiInv, Pad, Answering, OwnReply, moduleVars
    <3>7. Progress'
      BY <2>7, <3>1, <3>2, <3>3 DEF SpiInv, Pad, Progress
    <3>8. QED BY <3>4, <3>5, <3>6, <3>7 DEF SpiInv
  <2>8. CASE LetGo
    <3>1. at = "sent" /\ WellFormed(job)
      BY <2>8, DrivenRows DEF SpiInv, LetGo, Progress
    <3>2. module = "receiving" \/ module = "mute"
      BY <3>1, MayBeAt DEF SpiInv, Handshake
    <3>3. UNCHANGED <<initialized, issued, ready, reply, faults>>
      BY <2>8 DEF LetGo
    <3>4. CASE job.answer.form = "none"
      <4>1. job.code = "APPLY_OTA"
        BY <3>1, <3>4 DEF WellFormed
      <4>2. Return(TRUE, 0)
        BY <2>8, <3>4 DEF LetGo
      <4>3. \/ module = "receiving" /\ module' = "booting" /\ heard'.id = issued
            \/ module' = "mute" /\ UNCHANGED <<module, heard>>
        <5>1. CASE module = "receiving"
          BY <2>8, <4>1, <5>1 DEF LetGo
        <5>2. CASE module = "mute"
          BY <2>8, <5>2 DEF LetGo
        <5>3. QED BY <3>2, <5>1, <5>2
      <4>4. /\ at' = "idle" /\ job' = NoJob /\ item' = 1 /\ size' = 0 /\ ended' = 0
            /\ result'.id = 0 /\ result'.ok \in BOOLEAN
        BY <4>2 DEF Return
      <4>5. TypeOKS'
        <5>1. HostTypes'
          BY <2>0, <3>3, <4>4 DEF SpiInv, TypeOKS, HostTypes, Places
        <5>2. ModuleTypes'
          BY <3>3, <4>3 DEF SpiInv, TypeOKS, HostTypes, ModuleTypes, ModuleStates
        <5>3. Flags'
          BY <3>3, <4>4, Zenon DEF SpiInv, TypeOKS, Flags
        <5>4. QED BY <5>1, <5>2, <5>3 DEF TypeOKS
      <4>6. Handshake' /\ TransfersMatch'
        <5>1. initialized /\ (ready <=> module \in {"idle", "answered", "mute"})
          BY <3>1 DEF SpiInv, Handshake
        <5>2. initialized' /\ (ready' <=> module \in {"idle", "answered", "mute"})
          BY <3>3, <5>1
        <5>3. module \in {"idle", "answered", "mute"} <=> module' \in {"idle", "answered", "mute"}
          BY <3>2, <4>3, <4>4
        <5>4. module' # "off" /\ (module' # "mute" => module' \in MayBe[at'])
          BY <4>3, <4>4, MayBeAt
        <5>5. Handshake'
          BY <5>2, <5>3, <5>4 DEF Handshake
        <5>6. QED BY <4>3, <4>4, <5>5 DEF TransfersMatch
      <4>7. Answering' /\ Progress' /\ OwnReply'
        BY <3>2, <3>3, <4>3, <4>4 DEF SpiInv, Answering, Progress, OwnReply
      <4>8. QED BY <4>5, <4>6, <4>7 DEF SpiInv
    <3>5. CASE job.answer.form # "none"
      <4>1. job.code # "APPLY_OTA"
        BY <3>1, <3>5 DEF WellFormed
      <4>2. at' = "waitReply" /\ UNCHANGED <<job, item, size, ended, result>>
        BY <2>8, <3>5 DEF LetGo
      <4>3. \/ /\ module = "receiving" /\ module' = "working"
               /\ heard' = [code |-> job.code, id |-> issued]
            \/ module' = "mute" /\ UNCHANGED <<module, heard>>
        BY <2>8, <3>2, <4>1 DEF LetGo
      <4>4. TypeOKS'
        <5>1. HostTypes'
          BY <3>3, <4>2 DEF SpiInv, TypeOKS, HostTypes, Places
        <5>2. heard'.id = issued \/ heard' = heard
          BY <4>3
        <5>3. ModuleTypes'
          BY <3>3, <4>3, <5>2 DEF SpiInv, TypeOKS, HostTypes, ModuleTypes, ModuleStates
        <5>4. Flags'
          BY <3>3, <4>2, Zenon DEF SpiInv, TypeOKS, Flags
        <5>5. QED BY <5>1, <5>3, <5>4 DEF TypeOKS
      <4>5. Handshake' /\ TransfersMatch'
        <5>1. initialized /\ (ready <=> module \in {"idle", "answered", "mute"})
          BY <3>1 DEF SpiInv, Handshake
        <5>2. initialized' /\ (ready' <=> module \in {"idle", "answered", "mute"})
          BY <3>3, <5>1
        <5>3. module \in {"idle", "answered", "mute"} <=> module' \in {"idle", "answered", "mute"}
          BY <3>2, <4>2, <4>3
        <5>4. module' # "off" /\ (module' # "mute" => module' \in MayBe[at'])
          BY <4>2, <4>3, MayBeAt
        <5>5. Handshake'
          BY <5>2, <5>3, <5>4 DEF Handshake
        <5>6. QED BY <4>2, <4>3, <5>5 DEF TransfersMatch
      <4>6. Answering'
        BY <3>3, <4>2, <4>3 DEF SpiInv, Answering
      <4>7. Progress' /\ OwnReply'
        BY <3>1, <3>3, <4>2 DEF SpiInv, Progress, OwnReply
      <4>8. QED BY <4>4, <4>5, <4>6, <4>7 DEF SpiInv
    <3>6. QED BY <3>4, <3>5
  <2>9. ASSUME NEW ok \in BOOLEAN, NEW id \in 0 .. MaxIssued, Finish(ok, id),
               at \in {"start", "code", "count"}, id # 0 => id = issued
        PROVE  SpiInv' /\ OwnReply'
    <3>1. TypeOKS'
      <4>0. /\ at' = "idle" /\ job' = NoJob /\ item' = 1 /\ size' = 0 /\ ended' = 0
            /\ result'.id = id /\ issued' = issued
        BY <2>9 DEF Finish, Return
      <4>1. HostTypes'
        BY <2>9, <4>0 DEF SpiInv, TypeOKS, HostTypes, Places
      <4>2. ModuleTypes'
        BY <2>9, NoJobFields, IssuedType
        DEF SpiInv, TypeOKS, ModuleTypes, ModuleStates, Finish, Return
      <4>3. Flags'
        BY <2>9, Zenon DEF SpiInv, TypeOKS, Flags, Finish, Return
      <4>4. QED BY <4>1, <4>2, <4>3 DEF TypeOKS
    <3>2. Handshake' /\ TransfersMatch'
      BY <2>9, MayBeAt DEF SpiInv, Finish, Return, Handshake, TransfersMatch
    <3>3. Answering'
      BY <2>9, MayBeAt DEF SpiInv, Finish, Return, Handshake, Answering
    <3>4. Progress' /\ OwnReply'
      BY <2>9 DEF Finish, Return, Progress, OwnReply
    <3>5. QED BY <3>1, <3>2, <3>3, <3>4 DEF SpiInv
  <2>10. ASSUME at \in {"start", "code"}, at' \in {"code", "count"},
                UNCHANGED <<initialized, job, item, size, ended, issued, result, moduleVars>>
         PROVE  SpiInv' /\ OwnReply'
    <3>1. TypeOKS'
      <4>1. HostTypes'
        BY <2>10 DEF SpiInv, TypeOKS, HostTypes, Places, moduleVars
      <4>2. ModuleTypes'
        BY <2>10 DEF SpiInv, TypeOKS, ModuleTypes, moduleVars
      <4>3. Flags'
        BY <2>10, Zenon DEF SpiInv, TypeOKS, Flags, moduleVars
      <4>4. QED BY <4>1, <4>2, <4>3 DEF TypeOKS
    <3>2. Handshake' /\ TransfersMatch'
      BY <2>10, MayBeAt DEF SpiInv, Handshake, TransfersMatch, moduleVars
    <3>3. Answering' /\ Progress' /\ OwnReply'
      BY <2>10 DEF SpiInv, Answering, Progress, OwnReply, moduleVars
    <3>4. QED BY <3>1, <3>2, <3>3 DEF SpiInv
  <2>11. CASE WaitStart
    <3>1. at = "start" /\ FALSE \in BOOLEAN /\ 0 \in 0 .. MaxIssued
      BY <2>11 DEF WaitStart, SpiAssumption
    <3>2. CASE Finish(FALSE, 0)
      BY <2>9, <3>1, <3>2
    <3>3. CASE /\ at' = "code"
               /\ UNCHANGED <<initialized, job, item, size, ended, issued, result, moduleVars>>
      BY <2>10, <3>1, <3>3
    <3>4. QED BY <2>11, <3>2, <3>3 DEF WaitStart
  <2>12. CASE CheckCode
    <3>1. at = "code" /\ FALSE \in BOOLEAN /\ 0 \in 0 .. MaxIssued
      BY <2>12 DEF CheckCode, SpiAssumption
    <3>2. CASE Finish(FALSE, 0)
      BY <2>9, <3>1, <3>2
    <3>3. CASE /\ at' = "count"
               /\ UNCHANGED <<initialized, job, item, size, ended, issued, result, moduleVars>>
      BY <2>10, <3>1, <3>3
    <3>4. QED BY <2>12, <3>2, <3>3 DEF CheckCode
  <2>13. CASE ReadParams
    <3>1. reply.count # 0 => reply.id = issued
      BY <2>13, MayBeAt, NoJobFields DEF SpiInv, ReadParams, Handshake, Answering
    <3>2. PICK ok \in BOOLEAN, id \in {0, reply.id} :
             Finish(ok, id) /\ (id # 0 => reply.count # 0)
      BY <2>13 DEF ReadParams, Accepts
    <3>3. reply.id \in 0 .. MaxIssued /\ 0 \in 0 .. MaxIssued
      BY SpiAssumption DEF SpiInv, TypeOKS, ModuleTypes, SpiAssumption
    <3>4. QED BY <2>9, <2>13, <3>1, <3>2, <3>3 DEF ReadParams
  <2>14. CASE Signal
    <3>1. TypeOKS'
      <4>1. HostTypes'
        BY <2>14 DEF SpiInv, TypeOKS, HostTypes, Places, Signal, hostVars
      <4>2. ModuleTypes'
        BY <2>14 DEF SpiInv, TypeOKS, ModuleTypes, ModuleStates, Signal, hostVars
      <4>3. Flags'
        BY <2>14, Zenon DEF SpiInv, TypeOKS, Flags, Signal, hostVars
      <4>4. QED BY <4>1, <4>2, <4>3 DEF TypeOKS
    <3>2. Handshake' /\ TransfersMatch'
      BY <2>14, MayBeAt DEF SpiInv, Signal, Handshake, TransfersMatch, hostVars
    <3>3. Answering' /\ Progress' /\ OwnReply'
      BY <2>14, MayBeAt DEF SpiInv, Handshake, Signal, Answering, Progress, OwnReply, hostVars
    <3>4. QED BY <3>1, <3>2, <3>3 DEF SpiInv
  <2>15. CASE Rearm
    <3>1. TypeOKS'
      <4>1. HostTypes'
        BY <2>15 DEF SpiInv, TypeOKS, HostTypes, Places, Rearm, hostVars
      <4>2. ModuleTypes'
        BY <2>15 DEF SpiInv, TypeOKS, ModuleTypes, ModuleStates, Rearm, hostVars
      <4>3. Flags'
        BY <2>15, Zenon DEF SpiInv, TypeOKS, Flags, Rearm, hostVars
      <4>4. QED BY <4>1, <4>2, <4>3 DEF TypeOKS
    <3>2. Handshake' /\ TransfersMatch'
      <4>1. at \in {"idle", "waitReady"}
        BY <2>15, MayBeAt DEF SpiInv, TypeOKS, HostTypes, Places, Rearm, Handshake
      <4>2. QED BY <2>15, <4>1, MayBeAt DEF SpiInv, Rearm, Handshake, TransfersMatch, hostVars
    <3>3. Answering' /\ Progress' /\ OwnReply'
      BY <2>15 DEF SpiInv, Rearm, Answering, Progress, OwnReply, hostVars
    <3>4. QED BY <3>1, <3>2, <3>3 DEF SpiInv
  <2>16. ASSUME module = "working", module' = "answered", ready' = TRUE,
                UNCHANGED <<hostVars, heard>>,
                reply'.id = heard.id, faults' \in 0 .. MaxFaults
         PROVE  SpiInv' /\ OwnReply'
    <3>1. at = "waitReply"
      BY <2>16, MayBeAt DEF SpiInv, TypeOKS, HostTypes, Places, Handshake
    <3>2. TypeOKS'
      <4>1. HostTypes'
        BY <2>16 DEF SpiInv, TypeOKS, HostTypes, Places, hostVars
      <4>2. ModuleTypes'
        BY <2>16 DEF SpiInv, TypeOKS, ModuleTypes, ModuleStates, hostVars
      <4>3. Flags'
        BY <2>16, Zenon DEF SpiInv, TypeOKS, Flags, hostVars
      <4>4. QED BY <4>1, <4>2, <4>3 DEF TypeOKS
    <3>3. Handshake' /\ TransfersMatch'
      BY <2>16, <3>1, MayBeAt DEF SpiInv, Handshake, TransfersMatch, hostVars
    <3>4. Answering'
      <4>1. heard = [code |-> job.code, id |-> issued] /\ heard.id = issued
        BY <2>16 DEF SpiInv, Answering
      <4>2. reply'.id = issued' /\ job' = job /\ issued' = issued /\ heard' = heard
        BY <2>16, <4>1 DEF hostVars
      <4>3. QED BY <2>16, <4>1, <4>2 DEF Answering
    <3>5. Progress' /\ OwnReply'
      BY <2>16 DEF SpiInv, Progress, OwnReply, hostVars
    <3>6. QED BY <3>2, <3>3, <3>4, <3>5 DEF SpiInv
  <2>17. CASE Answer
    BY <2>16, <2>17 DEF Answer, SpiInv, TypeOKS, ModuleTypes
  <2>18. CASE BadAnswer
    BY <2>16, <2>18, SpiAssumption DEF BadAnswer, SpiInv, TypeOKS, ModuleTypes, SpiAssumption
  <2>19. CASE Dies
    <3>1. TypeOKS'
      <4>1. HostTypes'
        BY <2>19, NoJobFields, IssuedType
        DEF SpiInv, TypeOKS, HostTypes, Places, SpiAssumption, Dies, hostVars
      <4>2. ModuleTypes'
        BY <2>19, NoJobFields, IssuedType
        DEF SpiInv, TypeOKS, ModuleTypes, ModuleStates, SpiAssumption, Dies, hostVars
      <4>3. Flags'
        BY <2>19, Zenon DEF SpiInv, TypeOKS, Flags, SpiAssumption, Dies, hostVars
      <4>4. QED BY <4>1, <4>2, <4>3 DEF TypeOKS
    <3>2. Handshake' /\ TransfersMatch'
      BY <2>19 DEF SpiInv, Handshake, TransfersMatch, Dies, hostVars
    <3>3. Answering' /\ Progress' /\ OwnReply'
      BY <2>19 DEF SpiInv, Answering, Progress, OwnReply, Dies, hostVars
    <3>4. QED BY <3>1, <3>2, <3>3 DEF SpiInv
  <2>20. CASE UNCHANGED spiVars
    BY <2>20
    DEF SpiInv, TypeOKS, Flags, HostTypes, ModuleTypes, TransfersMatch, Handshake, Answering,
        Progress, OwnReply, spiVars, hostVars, moduleVars
  <2>21. QED
    BY <2>1, <2>2, <2>3, <2>4, <2>5, <2>6, <2>7, <2>8, <2>11, <2>12, <2>13, <2>14, <2>15,
       <2>17, <2>18, <2>19, <2>20 DEF NextS, Board, ModuleStep
<1>3. QED BY <1>1, <1>2, PTL DEF SpecS

\* waitForSlaveReady and spiSlaveSelect keep the board and the module at the same transfer,
\* through refusals, errors and the death of the module.
THEOREM HandshakeHolds ==
  ASSUME SizesAssumption, SpiAssumption PROVE SpecS => []SpiInv
BY SpiInductive, PTL

\* A call returns data of its own command, never what an earlier one has left.
THEOREM ReplyIsOwn ==
  ASSUME SizesAssumption, SpiAssumption PROVE SpecS => []OwnReply
BY SpiInductive, PTL

\* Every command that reaches the module is whole, and fills a multiple of four bytes unless
\* it is one of UnpaddedCommands.
THEOREM CommandsWhole ==
  ASSUME SizesAssumption, SpiAssumption PROVE SpecS => []CommandIsWhole
<1>1. SpiInv => CommandIsWhole
  <2> SUFFICES ASSUME SpiInv, at = "sent"
               PROVE  /\ ended = 1 /\ Len(job.sends) = job.count
                      /\ \A i \in 1 .. Len(job.sends) : job.sends[i].last <=> i = job.count
                      /\ job \notin UnpaddedCommands => size = 0
    BY DEF CommandIsWhole, WholeCommand, PadToMultipleOf4
  <2>1. job \in Driven /\ item = Len(job.sends) + 1
    BY DEF SpiInv, Progress
  <2>2. WellFormed(job) /\ (job \notin UnpaddedCommands => Fills(job))
    BY <2>1, DrivenRows
  <2>3. Len(job.sends) = job.count /\ job.count \in 0 .. 6
    BY <2>2 DEF WellFormed
  <2>4. ended = 1
    BY <2>1, <2>3 DEF SpiInv, Progress
  <2>5. size = (WrittenBefore(job, job.count + 1) + job.pad) % 4
    BY <2>1, <2>3 DEF SpiInv, Progress
  <2>6. QED BY <2>2, <2>3, <2>4, <2>5 DEF WellFormed, Fills
<1>2. QED BY <1>1, SpiInductive, PTL
=============================================================================
