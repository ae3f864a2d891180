---------------------------- MODULE ReferenceRil ----------------------------
(***************************************************************************)
(* The requests of the reference RIL (reference-ril.c): onRequest and its  *)
(* handlers on libril's event loop, the radio state, the technology of the *)
(* modem, and the unsolicited lines the AT reader hands over.              *)
(*                                                                         *)
(* A handler sends AT commands and waits for each: what its deciding       *)
(* command came to is the outcome, one of                                  *)
(*   "ok"      OK with a line that can be parsed                           *)
(*   "bad"     OK with a line that cannot, or an argument that is refused   *)
(*   "error"   a final response that is an error                           *)
(*   "closed"  no response, the channel closed                             *)
(* and a handler is the sequence of completions it makes for each. How     *)
(* commands and lines travel is the subject of AtChannel.                  *)
(***************************************************************************)
EXTENDS Integers, Sequences, FiniteSets, Scenario

\* The instances.
\* the requests libril makes besides RADIO_POWER
Requests == InRun([
     safety |-> {"GET_SIM_STATUS", "GET_CURRENT_CALLS", "DIAL", "HANGUP", "ANSWER",
        "SEPARATE_CONNECTION", "SIGNAL_STRENGTH", "VOICE_REGISTRATION_STATE", "OPERATOR", "DTMF", "SEND_SMS", "CDMA_SEND_SMS", "IMS_SEND_SMS",
        "SETUP_DATA_CALL", "SMS_ACKNOWLEDGE", "SET_NETWORK_SELECTION_AUTOMATIC", "GET_IMSI", "SIM_IO", "SEND_USSD", "DATA_CALL_LIST",
        "QUERY_NETWORK_SELECTION_MODE", "OEM_HOOK_RAW", "WRITE_SMS_TO_SIM", "DELETE_SMS_ON_SIM",
        "ENTER_SIM_PIN", "IMS_REGISTRATION_STATE", "GET_CELL_INFO_LIST",
        "SET_UNSOL_CELL_INFO_LIST_RATE", "GET_HARDWARE_CONFIG", "BASEBAND_VERSION",
        "DEVICE_IDENTITY", "CDMA_SUBSCRIPTION", "CDMA_SET_SUBSCRIPTION_SOURCE",
        "CDMA_GET_SUBSCRIPTION_SOURCE", "CDMA_QUERY_ROAMING_PREFERENCE",
        "CDMA_SET_ROAMING_PREFERENCE", "EXIT_EMERGENCY_CALLBACK_MODE", "NEIGHBORING_CELL_IDS"},
     further |-> {"SIM_IO"}])
\* the values of SET_PREFERRED_NETWORK_TYPE asked for
Modes == InRun([safety |-> {1, 4, 5, 9}, further |-> {1, 9}])
\* the modems that may be found: "multi", "cdma", "gsm"
Modems == InRun([
     safety |-> {"multi", "cdma", "gsm"},
     further |-> {"multi", "gsm"}])
MaxRequests == InRun([safety |-> 1, further |-> 2])  \* bound: requests made
MaxEvents == 2  \* bound: things the modem does by itself

VARIABLES
  sState, s_closed,
  currentTech, supportedTechs, preferredNetworkMode,   \* sMdmInfo
  polled,          \* pollSIMState is due
  simReady,        \* onSIMReady has sent its commands
  doing,           \* <<>>, or <<what the command thread is about to set>>, with
                   \* "opening" behind it when no request waits for it
  made,            \* made[t]: the request of token t
  answers,         \* answers[t]: the completions made for it
  crashed,
  modem,           \* [kind, tech, pref, on]: the modem itself; its SIM is ready
  told,            \* the technology the framework was last told, -1 if none
  overtaken,       \* the modem's radio went off and the state set last is not of
                   \* that: see CfunLine and Unheard
  events

radio == <<sState, s_closed>>
info  == <<currentTech, supportedTechs, preferredNetworkMode>>
book  == <<made, answers, crashed>>
vars == <<radio, info, polled, simReady, doing, book, modem, told, overtaken, events>>

Outcomes == {"ok", "bad", "error", "closed"}

GSM == 0
WCDMA == 1
CDMA == 2
EVDO == 3
LTE == 4
Techs == {GSM, WCDMA, CDMA, EVDO, LTE}

\* The technologies of a network mode, and the mask the modem is given.
net2modem == [mode \in 0 .. 11 |->
  CASE mode \in {0, 3} -> {GSM, WCDMA}
    [] mode = 1 -> {GSM}
    [] mode = 2 -> {WCDMA}
    [] mode = 4 -> {CDMA, EVDO}
    [] mode = 5 -> {CDMA}
    [] mode = 6 -> {EVDO}
    [] mode = 7 -> {GSM, WCDMA, CDMA, EVDO}
    [] mode = 8 -> {LTE, CDMA, EVDO}
    [] mode = 9 -> {LTE, GSM, WCDMA}
    [] mode = 10 -> Techs
    [] mode = 11 -> {LTE}]

net2pmask == <<1, 2, 3, 12, 4, 8, 15, 28, 19, 31, 16>>
MaskOf(mode) == IF mode = 0 THEN 1 + 2 * 256 ELSE net2pmask[mode]

\* RADIO_TECH_GPRS 1, RADIO_TECH_HSPA 11, RADIO_TECH_1xRTT 6, EVDO_A 8, LTE 14.
techFromModemType(tech) ==
  CASE tech = CDMA -> 6 [] tech = EVDO -> 8 [] tech = GSM -> 1
    [] tech = WCDMA -> 11 [] tech = LTE -> 14 [] OTHER -> -1

IsCdma == currentTech = CDMA

Init ==
  /\ sState = "UNAVAILABLE" /\ s_closed = TRUE
  /\ currentTech = GSM /\ supportedTechs = {} /\ preferredNetworkMode = 0
  /\ polled = FALSE /\ simReady = FALSE /\ doing = <<>>
  /\ made = <<>> /\ answers = <<>> /\ crashed = FALSE
  /\ modem \in [kind : Modems, tech : {CDMA, GSM}, pref : {1}, on : BOOLEAN]
  /\ modem.kind = "cdma" => modem.tech = CDMA
  /\ modem.kind = "gsm" => modem.tech = GSM
  /\ told = -1 /\ overtaken = FALSE /\ events = 0

---------------------------------------------------------------------------
(* What each handler completes its request with *)

SUCCESS == <<"SUCCESS">>
FAILURE == <<"GENERIC_FAILURE">>

\* Commands whose answer is not looked at.
requestDial(o) == SUCCESS
requestHangup(o) == SUCCESS
callCommand(o) == SUCCESS
requestDtmf(o) == SUCCESS

separateConnection(o) == IF o = "bad" THEN FAILURE ELSE SUCCESS

\* Commands of which only the final response counts.
Final(o) == IF o \in {"ok", "bad"} THEN SUCCESS ELSE FAILURE

requestGetCurrentCalls(o) == Final(o)
requestWriteSmsToSim(o) == Final(o)
requestDeleteSmsOnSim(o) == Final(o)
requestNumeric(o) == Final(o)
requestCdmaDeviceIdentity(o) == Final(o)
requestCdmaGetSubscriptionSource(o) == Final(o)
requestCdmaSetSubscriptionSource(o) == Final(o)
requestCdmaSetRoamingPreference(o) == Final(o)
requestExitEmergencyMode(o) == Final(o)
requestSendSMS(o) == Final(o)

\* Queries whose line is parsed.
Parsed(o) == IF o = "ok" THEN SUCCESS ELSE FAILURE

requestOrSendDataCallList(o) == Parsed(o)
requestSetupDataCall(o) == requestOrSendDataCallList(o)
requestQueryNetworkSelectionMode(o) == Parsed(o)
requestOperator(o) == Parsed(o)
requestSIM_IO(o) == Parsed(o)
requestCdmaGetRoamingPreference(o) == Parsed(o)

requestEnterSimPin(o) == IF o \in {"ok", "bad"} THEN SUCCESS ELSE <<"PASSWORD_INCORRECT">>

\* A failed command is answered before the jump to the error exit and by it.
requestSignalStrength(o) ==
  IF o \in {"error", "closed"} THEN FAILURE \o FAILURE ELSE Parsed(o)

\* The success exit runs on into the error exit.
requestSMSAcknowledge(o) == IF o = "bad" THEN FAILURE ELSE SUCCESS \o FAILURE

setNetworkSelectionAutomatic(o) == <<>>

\* An error response has no line, and the line is looked at all the same.
registrationCrashes(o) == o = "error"
parseRegistrationState(o) == Parsed(o)
requestRegistrationState(o) ==
  IF registrationCrashes(o) THEN <<>> ELSE parseRegistrationState(o)

requestCdmaSendSMS(o) == <<"SMS_SEND_FAIL_RETRY">>
requestImsSendSMS(o) ==
  IF o = "bad" THEN FAILURE ELSE requestSendSMS(o)

\* Requests answered without the modem.
requestSendUSSD(o) == <<"REQUEST_NOT_SUPPORTED">>
requestGetCellInfoList(o) == SUCCESS
requestSetCellInfoListRate(o) == SUCCESS
requestGetHardwareConfig(o) == SUCCESS
requestImsRegistrationState(o) == SUCCESS
requestOemHook(o) == SUCCESS
requestCdmaBaseBandVersion(o) == SUCCESS
requestCdmaSubscription(o) == SUCCESS

\* getCardStatus never fails, whatever getSIMStatus comes to.
getCardStatus(o) == SUCCESS

CdmaOnly == {"BASEBAND_VERSION", "DEVICE_IDENTITY", "CDMA_SUBSCRIPTION",
             "CDMA_SET_SUBSCRIPTION_SOURCE", "CDMA_GET_SUBSCRIPTION_SOURCE",
             "CDMA_QUERY_ROAMING_PREFERENCE", "CDMA_SET_ROAMING_PREFERENCE",
             "EXIT_EMERGENCY_CALLBACK_MODE"}

\* The cases of onRequest; those for CDMA fall through to the default.
Handled(r, o) ==
  CASE r \in CdmaOnly /\ ~IsCdma -> <<"REQUEST_NOT_SUPPORTED">>
    [] r = "GET_SIM_STATUS" -> getCardStatus(o)
    [] r = "GET_CURRENT_CALLS" -> requestGetCurrentCalls(o)
    [] r = "DIAL" -> requestDial(o)
    [] r = "HANGUP" -> requestHangup(o)
    [] r = "ANSWER" -> callCommand(o)
    [] r = "SEPARATE_CONNECTION" -> separateConnection(o)
    [] r = "SIGNAL_STRENGTH" -> requestSignalStrength(o)
    [] r = "VOICE_REGISTRATION_STATE" -> requestRegistrationState(o)
    [] r = "OPERATOR" -> requestOperator(o)
    [] r = "DTMF" -> requestDtmf(o)
    [] r = "SEND_SMS" -> requestSendSMS(o)
    [] r = "CDMA_SEND_SMS" -> requestCdmaSendSMS(o)
    [] r = "IMS_SEND_SMS" -> requestImsSendSMS(o)
    [] r = "SETUP_DATA_CALL" -> requestSetupDataCall(o)
    [] r = "SMS_ACKNOWLEDGE" -> requestSMSAcknowledge(o)
    [] r = "GET_IMSI" -> requestNumeric(o)
    [] r = "SIM_IO" -> requestSIM_IO(o)
    [] r = "SEND_USSD" -> requestSendUSSD(o)
    [] r = "SET_NETWORK_SELECTION_AUTOMATIC" -> setNetworkSelectionAutomatic(o)
    [] r = "DATA_CALL_LIST" -> requestOrSendDataCallList(o)
    [] r = "QUERY_NETWORK_SELECTION_MODE" -> requestQueryNetworkSelectionMode(o)
    [] r = "OEM_HOOK_RAW" -> requestOemHook(o)
    [] r = "WRITE_SMS_TO_SIM" -> requestWriteSmsToSim(o)
    [] r = "DELETE_SMS_ON_SIM" -> requestDeleteSmsOnSim(o)
    [] r = "ENTER_SIM_PIN" -> requestEnterSimPin(o)
    [] r = "IMS_REGISTRATION_STATE" -> requestImsRegistrationState(o)
    [] r = "GET_CELL_INFO_LIST" -> requestGetCellInfoList(o)
    [] r = "SET_UNSOL_CELL_INFO_LIST_RATE" -> requestSetCellInfoListRate(o)
    [] r = "GET_HARDWARE_CONFIG" -> requestGetHardwareConfig(o)
    [] r = "BASEBAND_VERSION" -> requestCdmaBaseBandVersion(o)
    [] r = "DEVICE_IDENTITY" -> requestCdmaDeviceIdentity(o)
    [] r = "CDMA_SUBSCRIPTION" -> requestCdmaSubscription(o)
    [] r = "CDMA_SET_SUBSCRIPTION_SOURCE" -> requestCdmaSetSubscriptionSource(o)
    [] r = "CDMA_GET_SUBSCRIPTION_SOURCE" -> requestCdmaGetSubscriptionSource(o)
    [] r = "CDMA_QUERY_ROAMING_PREFERENCE" -> requestCdmaGetRoamingPreference(o)
    [] r = "CDMA_SET_ROAMING_PREFERENCE" -> requestCdmaSetRoamingPreference(o)
    [] r = "EXIT_EMERGENCY_CALLBACK_MODE" -> requestExitEmergencyMode(o)
    [] OTHER -> <<"REQUEST_NOT_SUPPORTED">>

---------------------------------------------------------------------------
(* The radio state, and the technology *)

\* setRadioState and, when the radio comes on, onRadioPowerOn: pollSIMState.
setRadioState(new) ==
  LET state == IF s_closed THEN "UNAVAILABLE" ELSE new IN
  /\ sState' = state
  /\ polled' = (polled \/ (state = "ON" /\ sState # "ON"))
  /\ told' = IF state = "UNAVAILABLE" THEN -1 ELSE told

\* Polls go on only in a state that is no longer used; onSIMReady follows.
pollSIMState ==
  /\ polled /\ doing = <<>>
  /\ polled' = FALSE
  /\ simReady' = (simReady \/ sState = "SIM_NOT_READY")
  /\ UNCHANGED <<radio, info, doing, book, modem, told, overtaken, events>>

TechSilent(tech) == currentTech' = tech /\ UNCHANGED told

setRadioTechnology(tech) ==
  /\ currentTech' = tech
  /\ told' = IF techFromModemType(tech) # techFromModemType(currentTech)
                /\ techFromModemType(tech) > 0
             THEN techFromModemType(tech) ELSE told

\* is_multimode_modem by AT+CTEC, then AT+WNAM, which CDMA modems know: what
\* is stored for those two is the bit of the technology, not its number.
probeForModemMode ==
  \/ /\ modem.kind = "multi"
     /\ currentTech' = modem.tech /\ preferredNetworkMode' = modem.pref
     /\ supportedTechs' = Techs
  \/ /\ modem.kind = "cdma"
     /\ currentTech' = 4 /\ supportedTechs' = {CDMA, EVDO}
     /\ UNCHANGED preferredNetworkMode
  \/ /\ modem.kind = "gsm"
     /\ currentTech' = 1 /\ supportedTechs' = {GSM, WCDMA, LTE}
     /\ UNCHANGED preferredNetworkMode

\* The channel is opened and initializeCallback runs up to the answer of
\* isRadioOn, after which PowerSet sets the state; an answer that cannot be used
\* leaves the radio off.
Open(o) ==
  /\ s_closed /\ doing = <<>>
  /\ s_closed' = FALSE /\ sState' = "OFF" /\ overtaken' = FALSE
  /\ probeForModemMode
  /\ doing' = IF o = "ok" /\ modem.on THEN <<"ON", "opening">> ELSE <<>>
  /\ UNCHANGED <<polled, simReady, book, modem, told, events>>

\* onATReaderClosed, at any point.
Close ==
  /\ ~s_closed /\ events < MaxEvents /\ events' = events + 1
  /\ s_closed' = TRUE /\ sState' = "UNAVAILABLE" /\ told' = -1
  /\ UNCHANGED <<info, polled, simReady, doing, book, modem, overtaken>>

---------------------------------------------------------------------------
(* Requests *)

Refused(r) ==
  \/ sState = "UNAVAILABLE" /\ r # "GET_SIM_STATUS"
  \/ sState = "OFF" /\ r \notin {"RADIO_POWER", "GET_SIM_STATUS"}

NOT_AVAILABLE == <<"RADIO_NOT_AVAILABLE">>

\* Libril makes request r, and it is completed with these answers.
Answers(r, completions) ==
  /\ ~crashed /\ doing = <<>> /\ Len(made) < MaxRequests
  /\ made' = Append(made, r) /\ answers' = Append(answers, completions)
  /\ UNCHANGED <<s_closed, simReady, events>>

\* A command goes out only while the channel is open.
Possible(o) == s_closed => o = "closed"

onRequest(r, o) ==
  /\ Possible(o)
  /\ Answers(r, IF Refused(r) THEN NOT_AVAILABLE ELSE Handled(r, o))
  /\ crashed' = (~Refused(r) /\ r = "VOICE_REGISTRATION_STATE" /\ registrationCrashes(o))
  /\ UNCHANGED <<sState, info, polled, doing, modem, told, overtaken>>

requestVoiceRadioTech ==
  LET tech == techFromModemType(currentTech) IN
  /\ Answers("VOICE_RADIO_TECH", IF Refused("VOICE_RADIO_TECH") THEN NOT_AVAILABLE
                                 ELSE IF tech < 0 THEN FAILURE ELSE SUCCESS)
  /\ told' = IF Refused("VOICE_RADIO_TECH") THEN told ELSE tech
  /\ UNCHANGED <<sState, info, polled, doing, crashed, modem, overtaken>>

\* After an error isRadioOn asks whether the radio is on nevertheless.
TurnedOn(o, on) == o \in {"ok", "bad"} \/ (o = "error" /\ on)

\* AT+CFUN=0 was obeyed and the channel closed before its response.
Unheard(up, o, obeyed) == ~up /\ o = "closed" /\ obeyed

\* AT+CFUN, and then the state; the answer follows in PowerSet. A command that
\* gets an error or no response may have been obeyed.
requestRadioPower(up, o, anyway) ==
  LET asked == IF up THEN sState = "OFF" ELSE sState # "OFF"
      obeyed == CASE o = "error" -> up /\ anyway
                  [] o = "closed" -> ~s_closed /\ anyway
                  [] OTHER -> TRUE
      on == IF obeyed THEN up ELSE modem.on
      done == IF up THEN TurnedOn(o, on) ELSE o \in {"ok", "bad"} IN
  /\ Possible(o)
  /\ modem' = [modem EXCEPT !.on = IF ~Refused("RADIO_POWER") /\ asked THEN on ELSE @]
  /\ overtaken' = \/ ~Refused("RADIO_POWER") /\ asked /\ Unheard(up, o, obeyed)
                  \/ overtaken /\ (Refused("RADIO_POWER") \/ ~asked \/ ~done)
  /\ \/ /\ Refused("RADIO_POWER")
        /\ Answers("RADIO_POWER", NOT_AVAILABLE) /\ UNCHANGED doing
     \/ /\ ~Refused("RADIO_POWER") /\ ~asked
        /\ Answers("RADIO_POWER", SUCCESS) /\ UNCHANGED doing
     \/ /\ ~Refused("RADIO_POWER") /\ asked /\ ~done
        /\ Answers("RADIO_POWER", FAILURE) /\ UNCHANGED doing
     \/ /\ ~Refused("RADIO_POWER") /\ asked /\ done
        /\ Answers("RADIO_POWER", <<>>)
        /\ doing' = <<IF up THEN "ON" ELSE "OFF">>
  /\ UNCHANGED <<sState, info, polled, crashed, told>>

PowerSet ==
  /\ doing # <<>>
  /\ setRadioState(doing[1])
  /\ answers' = IF Len(doing) = 1 THEN [answers EXCEPT ![Len(made)] = SUCCESS] ELSE answers
  /\ doing' = <<>>
  /\ UNCHANGED <<s_closed, info, simReady, made, crashed, modem, overtaken, events>>

\* Whatever the modem says to AT+CFUN=0 the radio is unavailable.
requestShutdown(o) ==
  /\ Possible(o) /\ ~Refused("SHUTDOWN")
  /\ Answers("SHUTDOWN", SUCCESS)
  /\ modem' = [modem EXCEPT !.on = @ /\ o \in {"error", "closed"}]
  /\ setRadioState("UNAVAILABLE")
  /\ UNCHANGED <<info, doing, crashed, overtaken>>

networkModePossible(mode) == net2modem[mode] \subseteq supportedTechs

\* The mask of the mode asked for is compared with what was stored last.
requestSetPreferredNetworkType(mode, o, tech) ==
  LET r == "SET_PREFERRED_NETWORK_TYPE"
      known == modem.kind = "multi" /\ o # "closed"    \* query_ctec
      new == preferredNetworkMode # MaskOf(mode) IN
  /\ Possible(o) /\ tech \in net2modem[mode]
  /\ \/ /\ Refused(r) /\ Answers(r, NOT_AVAILABLE)
        /\ UNCHANGED <<info, modem, told>>
     \/ /\ ~Refused(r) /\ ~networkModePossible(mode)
        /\ Answers(r, <<"MODE_NOT_SUPPORTED">>)
        /\ UNCHANGED <<info, modem, told>>
     \/ /\ ~Refused(r) /\ networkModePossible(mode)
        /\ ~known \/ (new /\ o \notin {"ok", "bad"})
        /\ Answers(r, FAILURE)
        /\ UNCHANGED <<info, modem, told>>
     \/ /\ ~Refused(r) /\ networkModePossible(mode) /\ known /\ ~new
        /\ Answers(r, SUCCESS)
        /\ UNCHANGED <<info, modem, told>>
     \/ /\ ~Refused(r) /\ networkModePossible(mode) /\ known /\ new
        /\ o \in {"ok", "bad"}
        /\ Answers(r, SUCCESS)
        /\ preferredNetworkMode' = mode
        /\ modem' = [modem EXCEPT !.pref = MaskOf(mode),
                                  !.tech = IF o = "ok" THEN tech ELSE @]
        /\ IF o = "ok" THEN setRadioTechnology(tech) ELSE UNCHANGED <<currentTech, told>>
        /\ UNCHANGED supportedTechs
  /\ UNCHANGED <<sState, polled, doing, crashed, overtaken>>

requestGetPreferredNetworkType(o) ==
  LET r == "GET_PREFERRED_NETWORK_TYPE" IN
  /\ Possible(o)
  /\ Answers(r, IF Refused(r) THEN NOT_AVAILABLE
                ELSE IF modem.kind = "multi" /\ o = "ok"
                        /\ \E mode \in 0 .. 11 : MaskOf(mode) = modem.pref
                THEN SUCCESS ELSE FAILURE)
  /\ UNCHANGED <<sState, info, polled, doing, crashed, modem, told, overtaken>>

---------------------------------------------------------------------------
(* Unsolicited lines, ignored while the radio is unavailable *)

CtecLine(tech) ==
  /\ ~s_closed /\ modem.kind = "multi" /\ tech # modem.tech
  /\ events < MaxEvents /\ events' = events + 1
  /\ modem' = [modem EXCEPT !.tech = tech]
  /\ IF sState # "UNAVAILABLE" /\ tech # EVDO THEN setRadioTechnology(tech)
     ELSE UNCHANGED <<currentTech, told>>
  /\ UNCHANGED <<radio, supportedTechs, preferredNetworkMode, polled, simReady, doing,
                 book, overtaken>>

\* The line may come between the response to AT+CFUN=1, or to AT+CFUN?, and the
\* setting of the state, which then overtakes it.
CfunLine ==
  /\ ~s_closed /\ modem.on
  /\ events < MaxEvents /\ events' = events + 1
  /\ modem' = [modem EXCEPT !.on = FALSE]
  /\ overtaken' = (overtaken \/ (doing # <<>> /\ Head(doing) = "ON"))
  /\ IF sState = "UNAVAILABLE" THEN UNCHANGED <<sState, polled, told>>
     ELSE setRadioState("OFF")
  /\ UNCHANGED <<s_closed, info, simReady, doing, book>>

---------------------------------------------------------------------------

Next ==
  /\ ~crashed
  /\ \/ \E o \in Outcomes : Open(o)
     \/ Close \/ PowerSet \/ pollSIMState \/ CfunLine
     \/ \E tech \in Techs : CtecLine(tech)
     \/ \E o \in Outcomes :
          \/ \E r \in Requests : onRequest(r, o)
          \/ \E up, anyway \in BOOLEAN : requestRadioPower(up, o, anyway)
          \/ \E mode \in Modes, tech \in Techs :
               requestSetPreferredNetworkType(mode, o, tech)
          \/ requestShutdown(o) \/ requestGetPreferredNetworkType(o)
     \/ requestVoiceRadioTech

Spec == Init /\ [][Next]_vars

---------------------------------------------------------------------------

TypeOK ==
  /\ sState \in {"UNAVAILABLE", "OFF", "ON"} /\ s_closed \in BOOLEAN
  /\ currentTech \in Techs /\ supportedTechs \subseteq Techs
  /\ preferredNetworkMode \in Nat
  /\ polled \in BOOLEAN /\ simReady \in BOOLEAN
  /\ doing \in {<<>>, <<"ON">>, <<"OFF">>, <<"ON", "opening">>} /\ overtaken \in BOOLEAN
  /\ Len(made) = Len(answers) /\ Len(made) <= MaxRequests
  /\ told \in Int

\* The handlers that do not complete their request once, and what they do:
\* AT+CSQ fails and both the failure and the error exit answer, the success
\* exit of the acknowledgement runs on into the error exit, AT+COPS=0 is sent
\* and nothing answers, and the registration's error response is read for a
\* line it does not have (reference-ril.c 872-894, 1762-1784, 2217, 1339).
Miscounted ==
  {<<"SIGNAL_STRENGTH", FAILURE \o FAILURE>>, <<"SMS_ACKNOWLEDGE", SUCCESS \o FAILURE>>,
   <<"SET_NETWORK_SELECTION_AUTOMATIC", <<>> >>, <<"VOICE_REGISTRATION_STATE", <<>> >>}

\* Every request but those of Miscounted is completed once (comment above
\* onRequest): by the time the handler has returned there is one completion,
\* never none and never two.
AnsweredOnce ==
  \A t \in DOMAIN made :
    \/ Len(answers[t]) = IF t = Len(made) /\ Len(doing) = 1 THEN 0 ELSE 1
    \/ <<made[t], answers[t]>> \in Miscounted

\* The radio is reported on only while the modem's radio is on, however the
\* commands, the errors of AT+CFUN=1 and the closings of the channel fall
\* (requestRadioPower and initializeCallback), unless a +CFUN: 0 was overtaken
\* by the setting of the state or the response to AT+CFUN=0 was lost with the
\* channel: until the next command or opening the state then says on.
RadioFollows == sState = "ON" /\ doing = <<>> => modem.on \/ overtaken

\* While the radio is available the framework knows the technology in use, that
\* of the modem as it was last heard: every change is notified
\* (setRadioTechnology). EVDO is not taken from a +CTEC line, and for a modem
\* without AT+CTEC the bit of the technology is stored in place of its number.
TechTold ==
  told # -1 /\ sState # "UNAVAILABLE" =>
    /\ told = techFromModemType(currentTech)
    /\ modem.kind = "multi" /\ modem.tech # EVDO => currentTech = modem.tech
=============================================================================
