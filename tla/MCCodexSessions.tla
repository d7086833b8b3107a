--------------------------- MODULE MCCodexSessions ---------------------------
EXTENDS CodexSessions
File(d, t, f) == [dir |-> d, thread |-> t, form |-> f]
MCThreads == {"s", "t"}
Live(f) == [archived |-> 0, dir |-> Day, form |-> f]
Archived == [archived |-> 1, dir |-> "archived", form |-> "jsonl"]
MCStores == {
  [disk |-> {}, index |-> <<>>],
  [disk |-> {File(Day, "s", "jsonl"), File("archived", "t", "jsonl")}, index |-> [s |-> Live("jsonl"), t |-> Archived]],
  [disk |-> {File(Day, "s", "zst"), File("archived", "t", "jsonl")}, index |-> [s |-> Live("jsonl"), t |-> [Archived EXCEPT !.archived = 2]]]}
MCConfigs == {[base |-> "on", profile |-> "absent", named |-> FALSE],
  [base |-> "on", profile |-> "off", named |-> TRUE], [base |-> "off", profile |-> "unset", named |-> TRUE],
  [base |-> "unset", profile |-> "on", named |-> TRUE], [base |-> "off", profile |-> "on", named |-> FALSE],
  [base |-> "bad", profile |-> "absent", named |-> FALSE], [base |-> "on", profile |-> "absent", named |-> TRUE]}
=============================================================================
