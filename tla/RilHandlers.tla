---------------------------- MODULE RilHandlers ----------------------------
(***************************************************************************)
(* The request handlers of Samsung-RIL whose whole behaviour, seen from    *)
(* the request queue, is a Profile of SamsungRil: the checks they make, in *)
(* the order of the code, the generic response they expect and the command *)
(* they send.  Each row is named after the handler and stands for it; a    *)
(* response handler is the radio state below which it drops its message.   *)
(* The handlers that keep data of their own between messages (SMS, DTMF,   *)
(* data connections, SIM, cached registration state) are not rows.         *)
(***************************************************************************)
EXTENDS SamsungRil, TLC

\* A handler that sends a command: malformed data is an error if it takes
\* any, the radio must be at least in state lo, and ex says whether it waits
\* for another of its kind.
Sends(hasArgs, lo, ex, command, ep, hasResp, respLo, radio) ==
    [does |-> "send", args |-> hasArgs, min |-> lo, low |-> "unhandled",
     excl |-> ex, cmd |-> command, expect |-> ep,
     resp |-> hasResp, respMin |-> respLo, sets |-> radio]

\* A handler with a generic response only, which completes it
Executes(hasArgs, lo, command) ==
    Sends(hasArgs, lo, FALSE, command, "complete", FALSE, UNAVAILABLE, {})

\* A handler with a response of its own; a generic response is not expected
Queries(lo, ex, command, respLo) ==
    Sends(FALSE, lo, ex, command, "none", TRUE, respLo, {})

\* A handler that answers by itself
Answers(hasArgs, lo) ==
    [Sends(hasArgs, lo, FALSE, "NONE", "none", FALSE, UNAVAILABLE, {})
        EXCEPT !.does = "answer"]

-----------------------------------------------------------------------------
(* Responses: the radio state below which the message is dropped.          *)

ipc_pwr_phone_state == UNAVAILABLE
ipc_call_list == UNAVAILABLE
ipc_disp_icon_info == SIM_NOT_READY
ipc_net_plmn_sel == SIM_NOT_READY
ipc_net_plmn_list == SIM_NOT_READY
ipc_net_mode_sel == SIM_NOT_READY
ipc_misc_me_version == UNAVAILABLE
ipc_misc_me_imsi == UNAVAILABLE
ipc_sec_phone_lock == UNAVAILABLE
ipc_sms_save_msg == UNAVAILABLE
ipc_sms_del_msg == UNAVAILABLE

-----------------------------------------------------------------------------
(* Requests.                                                               *)

\* The radio states that a power state response sets
PhoneStates == {OFF, SIM_NOT_READY}

ril_request_radio_power ==
    Sends(TRUE, UNAVAILABLE, TRUE, "PWR_PHONE_STATE", "abort", TRUE,
          ipc_pwr_phone_state, PhoneStates)

ril_request_dial == Executes(TRUE, SIM_NOT_READY, "CALL_OUTGOING")

ril_request_answer == Executes(FALSE, SIM_NOT_READY, "CALL_ANSWER")

ril_request_get_current_calls ==
    [Queries(SIM_NOT_READY, FALSE, "CALL_LIST", ipc_call_list)
        EXCEPT !.low = "complete"]

ril_request_signal_strength ==
    Queries(SIM_NOT_READY, FALSE, "DISP_ICON_INFO", ipc_disp_icon_info)

ril_request_query_network_selection_mode ==
    Queries(SIM_NOT_READY, FALSE, "NET_PLMN_SEL", ipc_net_plmn_sel)

\* The callback ipc_net_plmn_sel_callback completes on either result.
ril_request_set_network_selection_automatic ==
    Executes(FALSE, SIM_NOT_READY, "NET_PLMN_SEL")

ril_request_set_network_selection_manual ==
    Executes(TRUE, SIM_NOT_READY, "NET_PLMN_SEL")

ril_request_query_available_networks ==
    Queries(SIM_NOT_READY, TRUE, "NET_PLMN_LIST", ipc_net_plmn_list)

ril_request_get_preferred_network_type ==
    Queries(SIM_NOT_READY, FALSE, "NET_MODE_SEL", ipc_net_mode_sel)

ril_request_set_preferred_network_type ==
    Executes(TRUE, UNAVAILABLE, "NET_MODE_SEL")

ril_request_baseband_version ==
    Queries(SIM_NOT_READY, TRUE, "MISC_ME_VERSION", ipc_misc_me_version)

ril_request_get_imsi ==
    Queries(SIM_READY, TRUE, "MISC_ME_IMSI", ipc_misc_me_imsi)

ril_request_screen_state == Answers(TRUE, SIM_NOT_READY)

ril_request_set_mute == Executes(TRUE, UNAVAILABLE, "SND_MIC_MUTE_CTRL")

ril_request_query_facility_lock ==
    [Queries(SIM_READY, FALSE, "SEC_PHONE_LOCK", ipc_sec_phone_lock)
        EXCEPT !.args = TRUE]

ril_request_write_sms_to_sim ==
    Sends(TRUE, SIM_READY, FALSE, "SMS_SAVE_MSG", "abort", TRUE,
          ipc_sms_save_msg, {})

ril_request_delete_sms_on_sim ==
    Sends(TRUE, UNAVAILABLE, FALSE, "SMS_DEL_MSG", "abort", TRUE,
          ipc_sms_del_msg, {})

\* A request code that no entry of ril_request_handlers has
unsupported == [Answers(FALSE, UNAVAILABLE) EXCEPT !.does = "nothing"]

\* The commands of the rows above
Commands ==
    {"NONE", "PWR_PHONE_STATE", "CALL_OUTGOING", "CALL_ANSWER", "CALL_LIST",
     "DISP_ICON_INFO", "NET_PLMN_SEL", "NET_PLMN_LIST", "NET_MODE_SEL",
     "MISC_ME_VERSION", "MISC_ME_IMSI", "SND_MIC_MUTE_CTRL", "SEC_PHONE_LOCK",
     "SMS_SAVE_MSG", "SMS_DEL_MSG"}

\* ril_request_handlers
Handlers ==
    [RADIO_POWER |-> ril_request_radio_power,
     DIAL |-> ril_request_dial,
     ANSWER |-> ril_request_answer,
     GET_CURRENT_CALLS |-> ril_request_get_current_calls,
     SIGNAL_STRENGTH |-> ril_request_signal_strength,
     QUERY_NETWORK_SELECTION_MODE |-> ril_request_query_network_selection_mode,
     SET_NETWORK_SELECTION_AUTOMATIC |->
        ril_request_set_network_selection_automatic,
     SET_NETWORK_SELECTION_MANUAL |-> ril_request_set_network_selection_manual,
     QUERY_AVAILABLE_NETWORKS |-> ril_request_query_available_networks,
     GET_PREFERRED_NETWORK_TYPE |-> ril_request_get_preferred_network_type,
     SET_PREFERRED_NETWORK_TYPE |-> ril_request_set_preferred_network_type,
     BASEBAND_VERSION |-> ril_request_baseband_version,
     GET_IMSI |-> ril_request_get_imsi,
     SCREEN_STATE |-> ril_request_screen_state,
     SET_MUTE |-> ril_request_set_mute,
     QUERY_FACILITY_LOCK |-> ril_request_query_facility_lock,
     WRITE_SMS_TO_SIM |-> ril_request_write_sms_to_sim,
     DELETE_SMS_ON_SIM |-> ril_request_delete_sms_on_sim,
     UNSUPPORTED |-> unsupported]

-----------------------------------------------------------------------------
(* For TLC: the handlers of the kinds of an instance.                      *)
MCHandler == [k \in Kind |-> Handlers[k]]

\* Tokens are opaque pointers: safety does not depend on their names.
TokenSymmetry == Permutations(Token)
=============================================================================
