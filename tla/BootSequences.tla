----------------------------- MODULE BootSequences -----------------------------
(****************************************************************************)
(* The boot code of libsamsung-ipc: each function of a device's boot is the  *)
(* sequence of operations it carries out, in order, with what it does when   *)
(* the operation fails, when nothing arrives in time and when something else *)
(* arrives; and the boot loaders of the modems, by the commands they want.   *)
(* ModemBoot runs the one against the other.                                 *)
(*                                                                           *)
(* Operations: "open"/"close" a descriptor, "host" (a step on the host's own *)
(* side: mapping an image, loading nv_data), "power" (a set of power and     *)
(* link controls), "wait" (polling a condition), "at" (ATAT until something  *)
(* can be read), "send" (a command or an image with its header and its       *)
(* checksum), "put" (a copy into memory shared with the modem), "read" (one  *)
(* unit, whatever it is), "peek" (wait until something can be read), "ack"   *)
(* (read until the given answer comes, at most so many times), "exact" (read *)
(* and compare once) and "reply" (the answer to a command, by its code, of   *)
(* which a "read" takes the rest).                                           *)
(****************************************************************************)
EXTENDS Naturals, Sequences, SequencesExt, FiniteSets

Blocks == 2  \* flash blocks a modem image takes (hundreds in the code)
Unknown == 2  \* XMM626_HSIC_PSI_UNKNOWN_COUNT (22 in the code; even)
Ats == 2  \* XMM616_AT_COUNT (20 in the code)

-----------------------------------------------------------------------------
(* What follows an operation that did not go well. *)
Error == <<"error", 0>>       \* the boot fails and says so
Claim == <<"claim", 0>>       \* the boot ends and returns the value of an earlier success
Go(n) == <<"go", n>>          \* the boot goes on, n operations further
Either(n) == <<"either", n>>  \* one of both: the sign of memcmp, a short write, an unset length
Retry == <<"retry", 0>>       \* back to the operation before, a bounded number of times

Op(call, arg, fail, late, odd) == [op |-> call, arg |-> arg, fail |-> fail, late |-> late, odd |-> odd]
Must(call, arg) == Op(call, arg, Error, Error, Error)
Times(n, s) == FlattenSeq([i \in 1 .. n |-> s])

-----------------------------------------------------------------------------
(* XMM626 over HSIC.  An acknowledgement is two units, one per byte. *)
xmm626_hsic_ack_read(ack) == <<Must("ack", <<ack, ack>>)>>

xmm626_hsic_psi_send ==
    <<Must("at", "AT"), Must("read", "any"), Must("read", "any"), Must("send", "psi")>>
        \o Times(Unknown, <<Must("read", "any")>>)
        \o Times(2, <<Must("read", "any")>>)
        \o xmm626_hsic_ack_read("psiAck")

xmm626_hsic_ebl_send ==
    <<Must("send", "eblSize")>> \o xmm626_hsic_ack_read("eblSizeAck")
        \o <<Must("send", "ebl")>> \o xmm626_hsic_ack_read("eblAck")

xmm626_hsic_command_send(code, ack) ==
    <<Must("send", code)>> \o IF ack THEN <<Must("reply", code), Must("read", "any")>> ELSE <<>>

xmm626_hsic_modem_data_send ==
    xmm626_hsic_command_send("address", TRUE) \o Times(Blocks, xmm626_hsic_command_send("block", FALSE))

xmm626_hsic_port_config_send == <<Must("read", "any")>> \o xmm626_hsic_command_send("portConfig", TRUE)
xmm626_hsic_sec_start_send == xmm626_hsic_command_send("secStart", TRUE)
xmm626_hsic_sec_end_send == xmm626_hsic_command_send("secEnd", TRUE)
xmm626_hsic_firmware_send == xmm626_hsic_modem_data_send
xmm626_hsic_nv_data_send == <<Must("host", "nvData")>> \o xmm626_hsic_modem_data_send
xmm626_hsic_hw_reset_send == xmm626_hsic_command_send("hwReset", FALSE)

(* XMM626 over MIPI.  An acknowledgement is one word, and a block is answered. *)
xmm626_mipi_ack_read(ack) == <<Must("ack", <<ack>>)>>

xmm626_mipi_psi_send ==
    <<Must("at", "AT")>> \o xmm626_mipi_ack_read("boot0Ack")
        \o <<Must("send", "psi")>> \o xmm626_mipi_ack_read("psiAck")

xmm626_mipi_ebl_send ==
    <<Must("send", "boot1Magic")>> \o xmm626_mipi_ack_read("boot1Ack")
        \o <<Must("send", "eblSize")>> \o xmm626_mipi_ack_read("eblSizeAck")
        \o <<Must("send", "ebl")>> \o xmm626_mipi_ack_read("eblAck")

xmm626_mipi_command_send(code, ack) ==
    <<Must("send", code)>> \o IF ack THEN <<Must("reply", code), Must("read", "any")>> ELSE <<>>

xmm626_mipi_modem_data_send(blocks) ==
    xmm626_mipi_command_send("address", TRUE) \o Times(blocks, xmm626_mipi_command_send("block", TRUE))

xmm626_mipi_port_config_send == <<Must("read", "any")>> \o xmm626_mipi_command_send("portConfig", TRUE)
xmm626_mipi_sec_start_send == xmm626_mipi_command_send("secStart", TRUE)
xmm626_mipi_sec_end_send == xmm626_mipi_command_send("secEnd", TRUE)
xmm626_mipi_firmware_send == xmm626_mipi_modem_data_send(Blocks)
xmm626_mipi_nv_data_send == <<Must("host", "nvData")>> \o xmm626_mipi_modem_data_send(Blocks)
xmm626_mipi_mps_data_send == xmm626_mipi_modem_data_send(1)
xmm626_mipi_hw_reset_send == xmm626_mipi_command_send("hwReset", FALSE)

(* XMM616 over a serial line; the rest goes through memory the modem reads. *)
xmm616_psi_send ==
    Times(Ats, <<Must("send", "AT")>>)
        \o <<Must("exact", "version"), Must("read", "any"), Must("send", "psi"), Must("ack", <<"psiAck">>)>>
xmm616_firmware_send == <<Must("put", "firmware")>>
xmm616_nv_data_send == <<Must("host", "nvData"), Must("put", "nvData")>>

-----------------------------------------------------------------------------
(* The boards. *)
OpenImage == <<Must("open", "image"), Must("host", "map")>>

(* What the three HSIC boards do once the modem is powered. *)
HsicLoad ==
    <<Must("wait", "linkConnected")>>
        \o xmm626_hsic_psi_send \o xmm626_hsic_ebl_send \o xmm626_hsic_port_config_send
        \o xmm626_hsic_sec_start_send \o xmm626_hsic_firmware_send \o xmm626_hsic_nv_data_send
        \o xmm626_hsic_sec_end_send \o xmm626_hsic_hw_reset_send
        \o <<Op("wait", "hostWake", Go(1), Go(1), Go(1)),
             Must("power", {"linkOff", "hciOff"}),
             Must("wait", "hostWake"),
             Must("power", {"linkOn", "hciOn"}),
             Must("wait", "linkConnected")>>

i9300_boot ==
    OpenImage \o <<Must("open", "boot"), Must("open", "link"),
                   Must("power", {"hciOff"}), Must("power", {"modemOn", "hciOn"})>> \o HsicLoad

n7100_boot ==
    OpenImage \o <<Must("open", "boot"), Must("open", "link"),
                   Must("power", {"hciOff"}), Must("power", {"modemOn", "hciOn"})>> \o HsicLoad

galaxys2_boot ==
    OpenImage \o <<Must("open", "boot"), Must("open", "link"),
                   Must("power", {"modemOff", "linkOff", "hciOff"}),
                   Must("power", {"modemOn", "linkOn", "hciOn"})>> \o HsicLoad

maguro_boot ==
    OpenImage
        \o <<Must("open", "boot"), Must("power", {"modemOff"}), Must("power", {"modemOn"})>>
        \o xmm626_mipi_psi_send
        \o <<Must("close", "boot"), Must("open", "boot")>>
        \o xmm626_mipi_ebl_send \o xmm626_mipi_port_config_send \o xmm626_mipi_sec_start_send
        \o xmm626_mipi_firmware_send \o xmm626_mipi_nv_data_send
        \o <<Must("host", "mpsData")>> \o xmm626_mipi_mps_data_send
        \o xmm626_mipi_sec_end_send \o xmm626_mipi_hw_reset_send
        \o <<Must("wait", "online"), Must("host", "bootOff")>>

piranha_boot ==
    OpenImage
        \o <<Must("open", "boot"), Must("power", {"modemOff"}), Must("power", {"modemOn"})>>
        \o xmm626_mipi_psi_send
        \o <<Must("close", "boot"), Must("open", "boot")>>
        \o xmm626_mipi_ebl_send \o xmm626_mipi_port_config_send \o xmm626_mipi_sec_start_send
        \o xmm626_mipi_firmware_send \o xmm626_mipi_nv_data_send
        \o xmm626_mipi_sec_end_send \o xmm626_mipi_hw_reset_send

crespo_boot ==
    <<Must("host", "image"), Must("open", "ctl"), Must("power", {"modemReset"}), Must("open", "serial")>>
        \o xmm616_psi_send \o xmm616_firmware_send \o xmm616_nv_data_send

(* Once the modem has started what the serial line brought, the rest goes through the onedram. *)
OnedramLoad ==
    <<Must("ack", <<"onedramInit">>), Must("host", "map")>>
        \o xmm616_firmware_send \o xmm616_nv_data_send
        \o <<Must("host", "releaseSemaphore"), Must("send", "onedramMagic"), Must("ack", <<"onedramDeinit">>)>>

(* The handlers aries_boot calls are power_on first and power_off second. *)
aries_boot ==
    <<Must("host", "image"), Must("open", "onedram"), Must("host", "ifaceDown"),
      Must("power", {"ctlOn"}), Must("power", {"ctlOff"}), Must("open", "serial")>>
        \o xmm616_psi_send \o OnedramLoad

-----------------------------------------------------------------------------
(****************************************************************************)
(* The boot code of the second, older libsamsung-ipc of the repository.  Its *)
(* functions return the value of whatever call they made last, so that what  *)
(* a failure does depends on where it happens: the boot fails, goes on as if *)
(* nothing had happened, or ends and returns zero.                           *)
(****************************************************************************)
(* expect_read returns 0 when nothing arrives, which the tests for a negative *)
(* value let through; expect_data compares with memcmp, of which they only    *)
(* see a negative result.                                                     *)
expect_read(late) == Op("read", "any", Error, late, Error)
expect_data(data) == Op("exact", data, Error, Error, Either(1))

-----------------------------------------------------------------------------
(* Galaxy S2: HSIC. *)
galaxys2_send_psi ==
    LET acks == Unknown IN
    <<Op("send", "psi", Either(acks + 5), Error, Error)>>
        \o [i \in 1 .. acks |-> Op("read", "any", Go(acks - i + 5), Go(acks - i + 5), Error)]
        \o <<expect_data("crcAck"), expect_data("crcAck"), expect_data("psiAck"), expect_data("psiAck")>>

galaxys2_send_ebl ==
    <<Must("send", "eblSize"), expect_data("eblSizeAck"), expect_data("eblSizeAck"),
      Op("send", "ebl", Either(1), Error, Error), expect_data("eblAck"), expect_data("eblAck")>>

galaxys2_boot_cmd(cmd, needAck) ==
    <<Must("send", cmd)>> \o IF needAck THEN <<Must("reply", cmd), expect_read(Error)>> ELSE <<>>

galaxys2_boot_info_ack == <<expect_read(Error)>> \o galaxys2_boot_cmd("portConfig", TRUE)

galaxys2_send_image_data ==
    galaxys2_boot_cmd("address", TRUE) \o Times(Blocks, galaxys2_boot_cmd("block", FALSE))

(* nv_data that cannot be read ends the function with what the firmware's sending returned. *)
galaxys2_send_secure_images ==
    LET rest == galaxys2_send_image_data \o galaxys2_boot_cmd("secEnd", TRUE) \o galaxys2_boot_cmd("hwReset", FALSE)
    IN  galaxys2_boot_cmd("secStart", TRUE) \o galaxys2_send_image_data
            \o <<Op("host", "nvData", Go(Len(rest) + 1), Error, Error)>> \o rest

galaxys2_modem_reboot(hard, fail) ==
    LET Do(call, arg) == <<Op(call, arg, fail, fail, fail)>>
    IN  (IF hard THEN Do("power", {"modemOff"}) ELSE Do("wait", "linkConnected"))
            \o Do("power", {"linkOff"}) \o Do("power", {"hciOff"})
            \o Do("power", {"linkOn"}) \o Do("power", {"hciOn"})
            \o (IF hard THEN Do("power", {"modemOn"}) ELSE <<>>)
            \o Do("wait", "linkConnected")

(* The function's result is still 0 when one of its first steps fails. *)
Zero(call, arg) == Op(call, arg, Claim, Claim, Claim)

galaxys2_modem_bootstrap ==
    <<Zero("open", "image"), Zero("host", "map"), Zero("open", "boot"), Zero("open", "link")>>
        \o galaxys2_modem_reboot(TRUE, Claim)
        \o <<Zero("send", "AT")>> \o Times(2, <<Op("read", "any", Claim, Go(1), Claim)>>)
        \o galaxys2_send_psi \o galaxys2_send_ebl \o galaxys2_boot_info_ack
        \o galaxys2_send_secure_images \o galaxys2_modem_reboot(FALSE, Error)

-----------------------------------------------------------------------------
(* Galaxy Nexus: MIPI. *)
maguro_send_psi ==
    <<Op("send", "psi", Either(1), Error, Error),
      expect_data("crcAck"), expect_data("crcAck"), expect_data("generalAck"), expect_data("psiAck")>>

maguro_send_ebl ==
    <<Op("send", "eblSize", Either(6), Error, Error), expect_data("generalAck"), expect_data("eblSizeAck"),
      Op("send", "ebl", Either(3), Error, Error), expect_data("generalAck"), expect_data("eblAck")>>

maguro_boot_cmd(cmd, needAck) ==
    <<Must("send", cmd)>>
        \o IF needAck THEN <<Op("reply", cmd, Error, Either(2), Error), expect_read(Go(1))>> ELSE <<>>

maguro_boot_info_ack ==
    <<Op("read", "any", Error, Either(1), Error)>> \o maguro_boot_cmd("portConfig", TRUE)

maguro_send_image_data == maguro_boot_cmd("address", TRUE) \o Times(Blocks, maguro_boot_cmd("block", TRUE))

maguro_send_mps_data ==
    LET send == maguro_boot_cmd("address", TRUE) \o maguro_boot_cmd("block", TRUE)
    IN  <<Op("host", "mpsData", Either(Len(send) + 1), Error, Error)>> \o send

maguro_send_image_addrs ==
    LET rest == maguro_send_image_data \o maguro_send_mps_data
                    \o maguro_boot_cmd("secEnd", TRUE) \o maguro_boot_cmd("hwReset", FALSE)
    IN  maguro_boot_cmd("secStart", TRUE) \o maguro_send_image_data
            \o <<Op("host", "nvData", Go(Len(rest) + 1), Error, Error)>> \o rest

maguro_modem_reboot == <<Must("power", {"modemOff"}), Must("power", {"modemOn"})>>

maguro_modem_bootstrap ==
    <<Must("open", "image"), Must("host", "map"), Must("open", "boot")>>
        \o maguro_modem_reboot
        \o Times(2, <<Must("send", "AT"), Op("peek", "any", Go(1), Go(1), Go(1))>>)
        \o <<Op("peek", "any", Error, Go(1), Error), Op("ack", <<"boot0Ack">>, Error, Claim, Go(1))>>
        \o maguro_send_psi
        \o <<Must("close", "boot"), Zero("open", "boot"), Must("send", "boot1Magic"),
             expect_data("generalAck"), expect_data("boot1Ack")>>
        \o maguro_send_ebl \o maguro_boot_info_ack \o maguro_send_image_addrs
        \o <<Must("wait", "online"), Op("host", "bootOff", Go(1), Go(1), Go(1))>>

-----------------------------------------------------------------------------
(* Galaxy Tab: MIPI.  The rest of a reply is waited for without end, and what *)
(* becomes of the last two commands is not looked at.                         *)
piranha_ack_read(ack, late) == <<Op("ack", <<ack>>, Error, late, late)>>

piranha_boot_cmd_send(cmd, needAck) ==
    <<Must("send", cmd)>> \o IF needAck THEN <<Must("reply", cmd), expect_read(Go(0))>> ELSE <<>>

piranha_boot_data_send ==
    piranha_boot_cmd_send("address", TRUE) \o Times(Blocks, piranha_boot_cmd_send("block", TRUE))

Unchecked(s) == [i \in 1 .. Len(s) |->
    [s[i] EXCEPT !.fail = Go(Len(s) - i + 1), !.odd = Go(Len(s) - i + 1),
                 !.late = IF s[i].late = Go(0) THEN Go(0) ELSE Go(Len(s) - i + 1)]]

piranha_sec_send ==
    piranha_boot_cmd_send("secStart", TRUE) \o piranha_boot_data_send
        \o <<Must("host", "nvData")>> \o piranha_boot_data_send
        \o Unchecked(piranha_boot_cmd_send("secEnd", TRUE)) \o Unchecked(piranha_boot_cmd_send("hwReset", FALSE))

piranha_ebl_set == <<expect_read(Error)>> \o piranha_boot_cmd_send("portConfig", TRUE)

piranha_ebl_send ==
    <<Must("send", "eblSize")>> \o piranha_ack_read("eblSizeAck", Error)
        \o <<Must("send", "ebl")>> \o piranha_ack_read("eblAck", Error)

piranha_psi_send == <<Must("send", "psi")>> \o piranha_ack_read("psiAck", Error)

piranha_modem_bootstrap ==
    <<Must("open", "image"), Must("host", "map"), Must("open", "boot"),
      Must("power", {"modemOff"}), Must("power", {"modemOn"}),
      Op("send", "AT", Go(0), Error, Error)>>
        \o piranha_ack_read("boot0Ack", Retry)
        \o piranha_psi_send
        \o <<Must("close", "boot"), Must("open", "boot"), Must("send", "boot1Magic")>>
        \o piranha_ack_read("boot1Ack", Error)
        \o piranha_ebl_send \o piranha_ebl_set \o piranha_sec_send

-----------------------------------------------------------------------------
(* Galaxy S and Nexus S: the serial line.  Most writes are not looked at. *)
SerialImage(write) ==
    <<Op("send", "psi", write, write, write), Must("ack", <<"psiAck">>), Must("close", "serial")>>

SerialPsi(write) ==
    Times(Ats, <<Op("send", "AT", Go(1), Go(1), Go(1))>>)
        \o <<Must("exact", "version"), Must("read", "any")>> \o SerialImage(write)

(* A modem that does not take the magic says so by not answering it. *)
AriesLoad ==
    <<Must("ack", <<"onedramInit">>), Must("host", "map"), Must("put", "firmware"),
      Must("host", "nvData"), Must("put", "nvData"), Must("host", "releaseSemaphore"),
      Op("send", "onedramMagic", Go(1), Go(1), Go(1)), Must("ack", <<"onedramDeinit">>),
      Must("close", "onedram")>>

aries_modem_bootstrap ==
    <<Must("open", "onedram"), Must("host", "ifaceDown"),
      Op("power", {"ctlOff"}, Go(1), Go(1), Go(1)), Op("power", {"ctlOn"}, Go(1), Go(1), Go(1)),
      Must("open", "serial")>>
        \o SerialPsi(Go(1)) \o AriesLoad

CrespoLoad ==
    <<Must("put", "firmware"), Must("host", "nvData"), Must("put", "nvData"), Must("close", "ctl")>>

crespo_modem_bootstrap ==
    <<Must("host", "image"), Must("open", "ctl"), Must("power", {"modemReset"}), Must("open", "serial")>>
        \o SerialPsi(Error) \o CrespoLoad

-----------------------------------------------------------------------------
(* The modem's side, from what the host code writes and expects (external).  *)
Takes(cmd, answer) == <<[cmd |-> cmd, answer |-> answer]>>
Replies(cmd) == Takes(cmd, <<cmd, "rest">>)

HsicRom ==
    Takes("AT", <<"boot", "chip">>)
        \o Takes("psi", [i \in 1 .. Unknown |-> "unknown"] \o <<"crcAck", "crcAck", "psiAck", "psiAck">>)
        \o Takes("eblSize", <<"eblSizeAck", "eblSizeAck">>) \o Takes("ebl", <<"eblAck", "eblAck", "info">>)
        \o Replies("portConfig") \o Replies("secStart")
        \o Times(2, Replies("address") \o Times(Blocks, Takes("block", <<>>)))
        \o Replies("secEnd") \o Takes("hwReset", <<>>)

Image(blocks) == Replies("address") \o Times(blocks, Replies("block"))

MipiRom(images) ==
    Takes("AT", <<"boot0Ack">>)
        \o Takes("psi", <<"crcAck", "crcAck", "generalAck", "psiAck">>)
        \o Takes("boot1Magic", <<"generalAck", "boot1Ack">>)
        \o Takes("eblSize", <<"generalAck", "eblSizeAck">>) \o Takes("ebl", <<"generalAck", "eblAck", "info">>)
        \o Replies("portConfig") \o Replies("secStart")
        \o images
        \o Replies("secEnd") \o Takes("hwReset", <<>>)

SerialRom(last) ==
    Takes("AT", <<"version", "size">>) \o Takes("psi", last) \o Takes("firmware", <<>>) \o Takes("nvData", <<>>)

OnedramRom == SerialRom(<<"psiAck", "onedramInit">>) \o Takes("onedramMagic", <<"onedramDeinit">>)

MipiRoms == [plain |-> MipiRom(Times(2, Image(Blocks))),
             mps |-> MipiRom(Times(2, Image(Blocks)) \o Image(1))]
CrespoRom == SerialRom(<<"psiAck">>)

(* The loader of each device. *)
Rom == [
    i9300 |-> HsicRom, n7100 |-> HsicRom, galaxys2 |-> HsicRom, old_galaxys2 |-> HsicRom,
    piranha |-> MipiRoms.plain, old_piranha |-> MipiRoms.plain,
    maguro |-> MipiRoms.mps, old_maguro |-> MipiRoms.mps,
    aries |-> OnedramRom, old_aries |-> OnedramRom, crespo |-> CrespoRom, old_crespo |-> CrespoRom]

(* ops->boot of each device. *)
ipc_client_boot == [
    i9300 |-> i9300_boot, n7100 |-> n7100_boot, galaxys2 |-> galaxys2_boot, maguro |-> maguro_boot,
    piranha |-> piranha_boot, crespo |-> crespo_boot, aries |-> aries_boot,
    old_galaxys2 |-> galaxys2_modem_bootstrap, old_maguro |-> maguro_modem_bootstrap,
    old_piranha |-> piranha_modem_bootstrap, old_aries |-> aries_modem_bootstrap,
    old_crespo |-> crespo_modem_bootstrap]
================================================================================
