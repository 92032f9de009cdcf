----------------------------- MODULE MCTransfer -----------------------------
(* Stores and sources small enough to check Transfer.                      *)
EXTENDS Transfer, TLC

Names == {<<"a">>, <<"b">>, <<"c">>}
Keys  == {<<"k", 1>>, <<"k", 2>>, <<"o">>}
Texts == {"t", "u"}
Workspaces == {"w"}

(* The names write for one slot and author, imported items for none; a     *)
(* split may choose either key.                                            *)
Slots    == {"x", "y"}
SlotOfId == [i \in Names \cup (Keys \X Texts) |-> IF i \in Names THEN "x" ELSE "y"]

Item(key, parts) == [key |-> key, parts |-> parts, home |-> "w"]

(* A legacy directory of two files, one with a line that cannot be read,   *)
(* a vault with a note of two chunks, and a database with one observation. *)
(* A vault with a note that cannot be parsed and a database of an unknown  *)
(* schema are never imported.                                              *)
Legacy == [form |-> "legacy", files |-> << <<Item(<<"a">>, <<"u">>)>>,
             <<Item(None, <<"t">>), Item(<<"b">>, <<"t">>)>> >>]
Vault  == [form |-> "notes", files |-> << <<Item(<<"k">>, <<"t", "u">>)>> >>]
Torn   == [form |-> "notes", files |-> << <<Item(None, <<"t">>)>> >>]
Db(known) == [form |-> "claude-mem", known |-> known,
              files |-> << <<Item(<<"o">>, <<"t">>)>> >>]
AllSources == {Legacy, Vault, Torn, Db(TRUE), Db(FALSE)}

Unowned == [text |-> "t", scope |-> None, held |-> FALSE]
Aside   == [text |-> "t", scope |-> "w", held |-> TRUE]

(* An empty directory, or the bundle of a store of two memories that nobody*)
(* owns, or of one with an old receipt and two memories held aside under   *)
(* one entry.                                                              *)
Bundle(memory, rows, ledger) ==
  [records |-> [i \in {<<"a">>, <<"b">>} |-> memory], receipts |-> rows, entries |-> ledger,
   sealed |-> TRUE, intact |-> TRUE, clean |-> TRUE]

SomeBundles ==
  {Blank, Bundle(Unowned, {}, {}),
   Bundle(Aside, {[at |-> 0, size |-> 3, bytes |-> 3]},
          {[record |-> <<"b">>, slot |-> "x", state |-> "open"]})}

CONSTANTS s1, s2

(* A store from before memories had an owner, and a new one.               *)
SomeFound == {s1 :> (<<"a">> :> Unowned @@ <<"b">> :> Unowned) @@ s2 :> <<>>}
=============================================================================
