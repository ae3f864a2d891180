------------------------------ MODULE IpcMessages ------------------------------
(***************************************************************************)
(* The message helpers of libsamsung-ipc (call.c, gprs.c, misc.c, net.c,    *)
(* sec.c, sms.c, svc.c) and its text conversions (utils.c): what the library*)
(* lays out for the modem, and what it takes out of messages of the modem,  *)
(* which may arrive cut.                                                    *)
(*                                                                         *)
(* A message is a sequence of bytes.  Fields that are copied as they are (a *)
(* type, an identifier) are left out; texts, lengths and counts are kept.   *)
(***************************************************************************)
EXTENDS Integers, Sequences, FiniteSets, SequencesExt

CONSTANT None  \* a NULL pointer: differs from all others

\* The instances.
Nibble == 4  \* values of a hexadecimal digit, for 16
Field == 2  \* bytes of a field for a text, for 6 to 124
MaxText == 3  \* length of the texts of callers

Byte == Nibble * Nibble  \* values of an unsigned char
UInt == Byte * Byte     \* values of an unsigned int, for 2^32
Hash == 0 - 3            \* '#'

VARIABLES
    kind,     \* the message
    given,    \* the texts or data that go in
    message,  \* its bytes
    behind,   \* the byte found at any place behind the message
    phase,    \* "given", "built", "loop" or "read"
    index, passed, entry, offset,  \* of an extraction from a list: passed is its i
    received  \* what the receiver has

vars == <<kind, given, message, behind, phase, index, passed, entry, offset, received>>
loop == <<index, passed, entry, offset>>

SmallerOf(a, b) == IF a < b THEN a ELSE b
Text == BoundedSeq({1, 2}, MaxText)
Repeated(b, n) == [k \in 1 .. n |-> b]
At(p) == IF p \in DOMAIN message THEN message[p] ELSE behind

-----------------------------------------------------------------------------
(* What is laid out for the modem.                                         *)

\* strncpy or memcpy into a field that was set to zero.
Copied(text) == [k \in 1 .. Field |-> IF k \in DOMAIN text THEN text[k] ELSE 0]

\* Mutant of Clipped: the length of the text, though only part of it is copied.
NotClipped(text) == IF text = None THEN 0 ELSE Len(text)

\* The length of a text, at most that of its field; no text has none.
Clipped(text) == IF text = None THEN 0 ELSE SmallerOf(Len(text), Field)
CopiedOrNone(text) == IF text = None THEN Repeated(0, Field) ELSE Copied(text)

ipc_call_outgoing_setup(number) == <<Clipped(number)>> \o Copied(number)

ipc_sec_phone_lock_request_set_setup(password) == <<Clipped(password)>> \o CopiedOrNone(password)

\* Both lengths come before both texts.
Lengths(a, b) == <<Clipped(a), Clipped(b)>> \o CopiedOrNone(a) \o CopiedOrNone(b)
ipc_sec_pin_status_setup(pin1, pin2) == Lengths(pin1, pin2)
ipc_sec_change_locking_pw_setup(old, new) == Lengths(old, new)

ipc_gprs_define_pdp_context_setup(apn) == Copied(apn)

\* The user name and the password go with each other: one alone is dropped.
ipc_gprs_pdp_context_request_set_setup(username, password) ==
    IF username # None /\ password # None THEN <<1>> \o Copied(username) \o Copied(password)
    ELSE <<0>> \o Repeated(0, 2 * Field)

\* A network in fewer bytes than the field is filled up with '#'.
ipc_net_plmn_sel_setup(plmn) ==
    [k \in 1 .. Field |-> IF k \in DOMAIN plmn THEN plmn[k] ELSE Hash]

ipc_call_burst_dtmf_setup(entries) == <<Len(entries) % Byte>> \o entries

\* The caller's header says how many bytes follow.
ipc_sec_rsim_access_setup(data) ==
    IF data = None THEN <<0>> ELSE <<Len(data)>> \o data

\* header->length counts the length byte of the service centre too.
MessageLength(smsc, pdu) == (1 + Len(smsc) + Len(pdu)) % Byte

WithCentre(smsc, pdu) ==
    <<MessageLength(smsc, pdu), Len(smsc) % Byte>> \o smsc \o pdu

ipc_sms_send_msg_setup(smsc, pdu) ==
    IF smsc = <<>> \/ pdu = <<>> THEN None ELSE WithCentre(smsc, pdu)

ipc_sms_save_msg_setup(smsc, pdu) ==
    IF pdu = <<>> THEN None ELSE WithCentre(IF smsc = None THEN <<>> ELSE smsc, pdu)

Layout ==
    CASE kind = "OUTGOING" -> ipc_call_outgoing_setup(given[1])
      [] kind = "PHONE_LOCK" -> ipc_sec_phone_lock_request_set_setup(given[1])
      [] kind = "PIN_STATUS" -> ipc_sec_pin_status_setup(given[1], given[2])
      [] kind = "CHANGE_PW" -> ipc_sec_change_locking_pw_setup(given[1], given[2])
      [] kind = "DEFINE" -> ipc_gprs_define_pdp_context_setup(given[1])
      [] kind = "ACTIVATE" -> ipc_gprs_pdp_context_request_set_setup(given[1], given[2])
      [] kind = "PLMN_SEL" -> ipc_net_plmn_sel_setup(given[1])
      [] kind = "DTMF" -> ipc_call_burst_dtmf_setup(given[1])
      [] kind = "RSIM" -> ipc_sec_rsim_access_setup(given[1])
      [] kind = "SEND" -> ipc_sms_send_msg_setup(given[1], given[2])
      [] kind = "SAVE" -> ipc_sms_save_msg_setup(given[1], given[2])

-----------------------------------------------------------------------------
(* How the modem takes it: a text is as long as its length says, or ends at *)
(* the first byte that belongs to no text.                                  *)

Part(from, length) == [k \in 1 .. length |-> At(from + k - 1)]
TextAt(from) ==
    LET ends == {k \in 0 .. Field : k = Field \/ At(from + k) \notin {1, 2}}
    IN  Part(from, CHOOSE k \in ends : \A j \in ends : k <= j)

ModemTakes ==
    CASE kind \in {"OUTGOING", "PHONE_LOCK"} -> <<Part(2, At(1))>>
      [] kind \in {"PIN_STATUS", "CHANGE_PW"} -> <<Part(3, At(1)), Part(3 + Field, At(2))>>
      [] kind \in {"DEFINE", "PLMN_SEL"} -> <<TextAt(1)>>
      [] kind = "ACTIVATE" ->
            IF At(1) = 1 THEN <<TextAt(2), TextAt(2 + Field)>> ELSE <<None, None>>
      [] kind \in {"DTMF", "RSIM"} -> <<Part(2, At(1))>>
      [] kind \in {"SEND", "SAVE"} ->
            IF message = None THEN None
            ELSE <<Part(3, At(2)), Part(3 + At(2), At(1) - 1 - At(2))>>

-----------------------------------------------------------------------------
(* What is taken out of the messages of the modem, which puts a length or a *)
(* count in front.                                                         *)

ListKinds == {"CALL_LIST", "PLMN_LIST", "SCREEN"}
DataKinds == {"RSIM_RESPONSE", "INCOMING_MSG", "SVC_CENTER_ADDR"}
TextKinds == {"IMSI", "SN"}
Entry == 2  \* bytes of an entry, the last of them the length of a call's number

\* A list of calls, of networks or of lines.
ModemList ==
    <<Len(given)>> \o FoldLeft(LAMBDA list, e : list \o <<1, Len(e)>> \o e, <<>>, given)

ModemLayout ==
    CASE kind \in ListKinds -> ModemList
      [] kind \in DataKinds \cup {"IMSI"} -> <<Len(given)>> \o given
      [] kind = "SN" -> <<Len(given)>> \o Copied(given)

\* header->length > size - sizeof(header) fails.
LengthFits(length) == length <= Len(message) - 1

\* The size and the place of the data, or nothing.
Extracted ==
    IF message # <<>> /\ At(1) # 0 /\ LengthFits(At(1)) THEN Part(2, At(1)) ELSE None

ipc_sec_rsim_access_extract == Extracted
ipc_sms_incoming_msg_pdu_extract == Extracted
ipc_sms_svc_center_addr_smsc_extract == Extracted

\* The text is copied up to its length; whether it is all there is not looked at.
ipc_misc_me_imsi_imsi_extract == IF message = <<>> THEN None ELSE Part(2, At(1))

ipc_misc_me_sn_extract == IF At(1) > Field THEN None ELSE Part(2, At(1))

CountExtract == IF message = <<>> THEN 0 ELSE At(1)
ipc_call_list_count_extract == CountExtract
ipc_net_plmn_list_count_extract == CountExtract
ipc_svc_display_screen_count_extract == CountExtract

Count ==
    CASE kind = "CALL_LIST" -> ipc_call_list_count_extract
      [] kind = "PLMN_LIST" -> ipc_net_plmn_list_count_extract
      [] kind = "SCREEN" -> ipc_svc_display_screen_count_extract

IndexValid(n) == Count # 0 /\ n < Count

\* ipc_call_list_entry_number_extract: the number behind the entry at p.
ipc_call_list_entry_number_extract(p) == Part(p + Entry, At(p + Entry - 1))

-----------------------------------------------------------------------------
(* Text to data and back (data2string and string2data).                    *)

\* Digits are Nibble to a byte; a character that is no digit is Nibble itself.
data2string(data) ==
    FoldLeft(LAMBDA s, b : s \o <<b \div Nibble, b % Nibble>>, <<>>, data)

string2data_size(string) ==
    IF Len(string) % 2 = 0 THEN Len(string) \div 2
    ELSE (Len(string) - (Len(string) % 2)) \div 2 + 1

Digit(c) == IF c < Nibble THEN c ELSE 0

FirstShift(string) == Len(string) % 2

\* The byte at p is filled high digit first; p moves on after the low one.
string2data(string) ==
    LET Step(acc, c) ==
            IF acc.shift % 2 = 0
            THEN [data |-> [acc.data EXCEPT ![acc.p] = @ + Digit(c) * Nibble],
                  p |-> acc.p, shift |-> acc.shift + 1]
            ELSE [data |-> [acc.data EXCEPT ![acc.p] = @ + Digit(c)],
                  p |-> acc.p + 1, shift |-> acc.shift + 1]
    IN  FoldLeft(Step, [data |-> Repeated(0, string2data_size(string)),
                        p |-> 1, shift |-> FirstShift(string)], string).data

-----------------------------------------------------------------------------
Given ==
       [k : {"OUTGOING", "DEFINE", "PLMN_SEL"}, g : {<<t>> : t \in Text}]
  \cup [k : {"PHONE_LOCK", "RSIM"}, g : {<<t>> : t \in Text \cup {None}}]
  \cup [k : {"PIN_STATUS", "CHANGE_PW", "ACTIVATE"},
        g : {<<a, b>> : a, b \in Text \cup {None}}]
  \cup [k : {"DTMF"}, g : {<<Repeated(1, n)>> : n \in 0 .. Byte - 1}]
  \cup [k : {"SEND"}, g : {<<Repeated(2, a), Repeated(1, n)>> : a \in 0 .. MaxText, n \in 0 .. Byte - 1}]
  \cup [k : {"SAVE"}, g : {<<a, Repeated(1, n)>> :
                            a \in {None} \cup {Repeated(2, m) : m \in 0 .. MaxText}, n \in 0 .. Byte - 1}]
  \cup [k : {"CALL_LIST"}, g : BoundedSeq(BoundedSeq({1, 2}, 2), 2)]
  \cup [k : {"PLMN_LIST", "SCREEN"}, g : {Repeated(<<>>, n) : n \in 0 .. Byte - 1}]
  \cup [k : DataKinds \cup {"IMSI"}, g : Text]
  \cup [k : {"SN"}, g : {t \in Text : Len(t) <= Field}]
  \cup [k : {"DATA"}, g : BoundedSeq(0 .. Byte - 1, 2)]
  \cup [k : {"STRING"}, g : BoundedSeq(0 .. Nibble, 3)]

Init ==
    /\ \E c \in Given : kind = c.k /\ given = c.g
    /\ message = <<>> /\ behind \in {0, 2} /\ phase = "given"
    /\ index = 0 /\ passed = 0 /\ entry = 0 /\ offset = 0 /\ received = None

FromModem == ListKinds \cup DataKinds \cup TextKinds

\* The library, or the modem, lays the message out.
Build ==
    /\ phase = "given" /\ kind \notin {"DATA", "STRING"} /\ phase' = "built"
    /\ message' = IF kind \in FromModem THEN ModemLayout ELSE Layout
    /\ UNCHANGED <<kind, given, behind, loop, received>>

\* A message of the modem arrives cut (one with a serial number is taken by
\* misc.c of samsung-ril only if it has its size).
Cut(n) ==
    /\ phase = "built" /\ kind \in FromModem \ {"SN"} /\ n < Len(message)
    /\ message' = SubSeq(message, 1, n)
    /\ UNCHANGED <<kind, given, behind, phase, loop, received>>

Reads(r) == received' = r /\ phase' = "read" /\ UNCHANGED <<kind, given, message, behind>>

ModemReads ==
    /\ phase = "built" /\ kind \notin FromModem /\ Reads(ModemTakes) /\ UNCHANGED loop

\* The library takes data or a text out of the message.
Extract ==
    /\ phase = "built" /\ UNCHANGED loop
    /\ \/ kind = "RSIM_RESPONSE" /\ Reads(ipc_sec_rsim_access_extract)
       \/ kind = "INCOMING_MSG" /\ Reads(ipc_sms_incoming_msg_pdu_extract)
       \/ kind = "SVC_CENTER_ADDR" /\ Reads(ipc_sms_svc_center_addr_smsc_extract)
       \/ kind = "IMSI" /\ Reads(ipc_misc_me_imsi_imsi_extract)
       \/ kind = "SN" /\ Reads(ipc_misc_me_sn_extract)

\* ipc_call_list_entry_extract, ipc_net_plmn_list_entry_extract and
\* ipc_svc_display_screen_extract are called.
AskEntry(n) ==
    /\ phase = "built" /\ kind \in ListKinds
    /\ IF IndexValid(n)
       THEN /\ phase' = "loop" /\ index' = n /\ passed' = 0 /\ entry' = 0 /\ offset' = 1
            /\ UNCHANGED <<kind, given, message, behind, received>>
       ELSE Reads(None) /\ index' = n /\ UNCHANGED <<passed, entry, offset>>

\* One turn of their loops: the counter is an unsigned char, and the entry is
\* looked at before the offset is compared with the size.
LoopTurn ==
    /\ phase = "loop" /\ passed < index + 1
    /\ passed' = (passed + 1) % Byte /\ entry' = offset
    /\ offset' = (offset + Entry + IF kind = "CALL_LIST" THEN At(offset + Entry) ELSE 0) % UInt
    /\ UNCHANGED <<kind, given, message, behind, phase, index, received>>

EntryInside(from, to) == to <= Len(message)

LoopEnd ==
    /\ phase = "loop" /\ passed >= index + 1 /\ UNCHANGED loop
    /\ IF EntryInside(entry, offset)
       THEN Reads(IF kind = "CALL_LIST" THEN ipc_call_list_entry_number_extract(entry + 1)
                  ELSE Part(entry + 1, Entry))
       ELSE Reads(None)

\* A PDU goes to the framework as text, and comes as text from it.
Convert ==
    /\ phase = "given" /\ UNCHANGED loop
    /\ \/ kind = "DATA" /\ Reads(string2data(data2string(given)))
       \/ kind = "STRING" /\ Reads(data2string(string2data(given)))

Next ==
    \/ Build \/ ModemReads \/ Extract \/ LoopTurn \/ LoopEnd \/ Convert
    \/ \E n \in 0 .. Byte * Entry : Cut(n)
    \/ \E n \in 0 .. Byte - 1 : AskEntry(n)

Spec == Init /\ [][Next]_vars
-----------------------------------------------------------------------------
(* Properties.                                                             *)

\* The types of the variables.
TypeOK ==
    /\ phase \in {"given", "built", "loop", "read"}
    /\ index \in 0 .. Byte - 1 /\ passed \in 0 .. Byte - 1 /\ offset \in Nat
    /\ message # None => \A p \in DOMAIN message : message[p] \in -3 .. Byte - 1

Kept(text) == IF text = None THEN <<>> ELSE SubSeq(text, 1, SmallerOf(Len(text), Field))

\* The modem finds what the caller gave, up to the size of its field: numbers,
\* passwords, names, tones and short messages, as long as their length is a byte.
ModemGetsGiven ==
    phase = "read" /\ kind \notin FromModem \cup {"DATA", "STRING"} =>
        CASE kind \in {"OUTGOING", "PHONE_LOCK", "PIN_STATUS", "CHANGE_PW", "DEFINE", "PLMN_SEL"} ->
                received = [k \in DOMAIN given |-> Kept(given[k])]
          [] kind = "ACTIVATE" ->
                received = IF None \in Range(given) THEN <<None, None>>
                         ELSE [k \in DOMAIN given |-> Kept(given[k])]
          [] kind \in {"DTMF", "RSIM"} -> received = <<IF given[1] = None THEN <<>> ELSE given[1]>>
          [] kind \in {"SEND", "SAVE"} ->
                LET smsc == IF given[1] = None THEN <<>> ELSE given[1] IN
                1 + Len(smsc) + Len(given[2]) < Byte =>
                    received = IF given[2] = <<>> \/ (kind = "SEND" /\ smsc = <<>>) THEN None
                             ELSE <<smsc, given[2]>>

\* What the modem sent in front of which it put a length is found whole or not
\* at all, however the message is cut and whatever lies behind it. An IMSI is
\* copied as far as its length says (misc.c 52-57): one cut behind its length
\* ends with what lies behind the message.
WholeOrNothing ==
    phase = "read" /\ kind \in DataKinds \cup TextKinds =>
        \/ received = given
        \/ received = None /\ (Len(message) < Len(given) + 1 \/ given = <<>>)
        \/ kind = "IMSI" /\ Len(message) \in 1 .. Len(given)

\* An entry of a list is the one at the index, and is all in the message; one that
\* is not is never handed out, although the loop reads lengths behind the message.
EntriesWhole ==
    phase = "read" /\ kind \in ListKinds =>
        \/ received = None /\ (index >= Len(given) \/ Len(message) < Len(ModemList))
        \/ /\ offset <= Len(message)
           /\ received = IF kind = "CALL_LIST" THEN given[index + 1] ELSE <<1, 0>>

\* A PDU is the same after it was a text, and a text of an odd number of digits
\* gets a zero in front, with zeros for what are no digits.
TextsRoundTrip ==
    phase = "read" =>
        /\ kind = "DATA" => received = given
        /\ kind = "STRING" =>
              LET digits == [k \in DOMAIN given |-> Digit(given[k])]
              IN  received = IF Len(given) % 2 = 0 THEN digits ELSE <<0>> \o digits
=============================================================================
