--------------------------- MODULE MCHostRestore ---------------------------
(* A rewritten file, which may be a link, and a drop-in that is written    *)
(* afresh; one service reads both.                                         *)
EXTENDS HostRestore

MCSources == <<"daemon", "dropin">>
MCWrites == <<"daemon", "dropin">>
MCServices == <<"docker">>
MCInputs == [s \in {"docker"} |-> {"daemon", "dropin"}]
Private == File("regular", Bytes("first", FALSE), "0600", "other")
MCFirstFiles ==
  [p \in {"daemon", "dropin", "owned"} |->
     IF p = "daemon" THEN {Private, File("symlink", Bytes("target", FALSE), "0777", "other")}
     ELSE {Missing}]
MCFirstServices ==
  {[active |-> "active", unit |-> "enabled"], [active |-> "inactive", unit |-> "static"],
   [active |-> "activating", unit |-> "disabled"]}
MCEdits == {File("regular", Bytes("edited", FALSE), "0644", "root"),
            File("regular", Bytes("garbage", FALSE), "0644", "root"), Missing, Directory}
============================================================================
