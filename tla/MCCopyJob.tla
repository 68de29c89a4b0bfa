----------------------------- MODULE MCCopyJob -----------------------------
(* A small disc: two files whose names FATX does not allow and that become *)
(* the same, a directory with a file of the same name, and a file that an  *)
(* ACL rule excludes.                                                      *)
EXTENDS CopyJob

MCFiles == {"f1", "f2", "f3", "f4"}
MCDirs == {"root", "sub"}
MCParent == [x \in {"f1", "f2", "f3", "f4", "sub"} |->
               IF x \in {"f3", "f4"} THEN "sub" ELSE "root"]
MCName == [f1 |-> "a,b", f2 |-> "a;b", f3 |-> "a,b", f4 |-> "c",
           sub |-> "sub", root |-> "root"]
CollidingName == [MCName EXCEPT !.f2 = "ab"]  \* what "a,b" becomes
MCNames == {"a,b", "a;b", "ab", "ab001", "ab002", "c", "sub", "root"}
MCFatx == [n \in MCNames |-> IF n \in {"a,b", "a;b"} THEN "ab" ELSE n]
MCTries == [n \in MCNames |-> IF MCFatx[n] = n THEN <<n>> ELSE <<"ab", "ab001", "ab002">>]

AllJobs == {[from |-> "game", to |-> "hdd"], [from |-> "dvd", to |-> "hdd"],
            [from |-> "iso", to |-> "hdd"], [from |-> "iso", to |-> "net"],
            [from |-> "net", to |-> "hdd"]}
GameJobs == {[from |-> "game", to |-> "hdd"]}
DvdJobs == {[from |-> "dvd", to |-> "hdd"]}
====
