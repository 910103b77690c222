---------------------------- MODULE MCSubmission ----------------------------
(* Two clients, one mail account.                                          *)
EXTENDS Submission

MCAddress == {"own", "ann", "Ann", "bob"}
MCLower == [a \in MCAddress |-> IF a = "Ann" THEN "ann" ELSE a]
MCKeyPair == {"ownKey", "annKey", "serverKey", "badKey"}
MCUsable == MCKeyPair \ {"badKey"}

MCSnippet == [t \in {"", "hello", "<b>hello</b>", "note", "no"} |->
                IF t = "note" THEN "no" ELSE t]

Part(type, name, data) ==
  [type |-> type, name |-> name, disposition |-> "inline", data |-> data]

\* A reply with two files to an address in mixed case, a note to oneself, and a
\* message whose text goes on after a file.
MCComposed ==
  [reply |->
     [messageID |-> "id1", inReplyTo |-> <<<<"other", "else">>, <<"old", "bridge">>>>,
      to |-> <<"Ann">>, cc |-> <<>>, malformed |-> FALSE, multipart |-> TRUE,
      parts |-> <<Part("text/plain", "", "hello"),
                  Part("text/html", "", "<b>hello</b>"),
                  Part("image/png", "photo", "pixels"),
                  Part("text/plain", "log", "")>>],
   note |->
     [messageID |-> "id2", inReplyTo |-> <<>>,
      to |-> <<"own">>, cc |-> <<"ann">>, malformed |-> FALSE, multipart |-> FALSE,
      parts |-> <<Part("text/plain", "", "note")>>],
   split |->
     [messageID |-> "id1", inReplyTo |-> <<>>,
      to |-> <<"ann">>, cc |-> <<>>, malformed |-> FALSE, multipart |-> TRUE,
      parts |-> <<Part("text/plain", "", "hello"),
                  Part("image/png", "photo", "pixels"),
                  Part("text/plain", "", "note")>>]]

MCRecipientLists == {<<"ann">>, <<"own", "bob">>}

Setting(own, server, ownInDirectory, ann) ==
  [account |-> [address |-> "own", private |-> own, public |-> own],
   serverKey |-> server,
   keys |-> [own |-> ownInDirectory, ann |-> ann, bob |-> {}]]

\* With and without the account's keys and the server's; a directory that lacks
\* ann's key, has one that cannot be used, or another than the account's.
MCSettings ==
  {Setting({"ownKey"}, {"serverKey"}, {"ownKey"}, ann) :
     ann \in {{}, {"annKey"}, {"badKey"}}}
  \cup {Setting({}, {"serverKey"}, {"ownKey"}, {"annKey"}),
        Setting({"ownKey"}, {}, {"ownKey"}, {"annKey"}),
        Setting({"ownKey"}, {"serverKey"}, {"annKey"}, {"annKey"})}

=============================================================================
