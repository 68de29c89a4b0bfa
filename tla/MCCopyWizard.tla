---------------------------- MODULE MCCopyWizard ----------------------------
(* The copy wizard on small instances: two copy threads (one may still be  *)
(* in ExitThread when the next starts), two objects, two tray threads.     *)
EXTENDS CopyWizard

(* Discs whose copy never raises generalError, to hard disk and to SMB.    *)
PlainJobs == {<<"GAME", "hdd">>, <<"CDDA", "hdd">>}

(* Discs whose copy may raise it, from a handler or from the copy thread.  *)
ErrorJobs == {<<"DVD", "hdd">>, <<"DVD", "smb">>}
====
