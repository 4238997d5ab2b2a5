------------------------------- MODULE Keyring -------------------------------
(***************************************************************************)
(* The AES-256-GCM keyring and its framing (encryption/aesgcm.go).  Bytes  *)
(* are sequences, and a key id is a sequence of bytes; a GCM-sealed text   *)
(* is one byte that only its key, nonce and additional data open.          *)
(***************************************************************************)
EXTENDS Naturals, Sequences, FiniteSets

Malformed == "ErrMalformedCiphertext"
UnknownKey == "ErrUnknownKeyID"
Authentication == "ErrAuthentication"
InvalidKey == [active |-> <<>>, keys |-> {}]  \* ErrInvalidKey, no ring
failed(text) == text \in {<<Malformed>>, <<UnknownKey>>, <<Authentication>>}

schemeVersion == 1

\* A key is usable when its id is non-empty and its secret has 32 bytes.
newAEAD(key) == Len(key.id) \in 1 .. 255 /\ key.secret = 32

\* The ring of a list of keys with distinct ids, the active one among them.
NewAESGCM(active, keys) ==
    LET ids == {keys[i].id : i \in DOMAIN keys}
    IN  IF /\ active # <<>> /\ keys # <<>>
           /\ \A i \in DOMAIN keys : newAEAD(keys[i])
           /\ Cardinality(ids) = Len(keys)
           /\ active \in ids
        THEN [active |-> active, keys |-> ids]
        ELSE InvalidKey

encodeHeader(keyID) == <<schemeVersion, Len(keyID)>> \o keyID

seal(key, nonce, text, aad) == [key |-> key, nonce |-> nonce, text |-> text, aad |-> aad]

\* header || nonce || sealed, the header authenticated with the text.
Encrypt(r, nonce, text) ==
    LET header == encodeHeader(r.active)
    IN  header \o <<nonce, seal(r.active, nonce, text, header)>>

decodeHeader(c) ==
    IF Len(c) < 2 \/ c[1] # schemeVersion \/ Len(c) < 2 + c[2] THEN [error |-> TRUE]
    ELSE [error |-> FALSE, keyID |-> SubSeq(c, 3, 2 + c[2]), headerLen |-> 2 + c[2]]

\* Opens with the key the header names; fails on what it cannot parse, does
\* not hold or cannot authenticate.
Decrypt(r, c) ==
    LET h == decodeHeader(c)
        rest == SubSeq(c, h.headerLen + 1, Len(c))
    IN  IF h.error THEN <<Malformed>>
        ELSE IF h.keyID \notin r.keys THEN <<UnknownKey>>
        ELSE IF rest = <<>> THEN <<Malformed>>
        ELSE IF /\ Len(rest) = 2 /\ rest[2].key = h.keyID
                /\ rest[2].nonce = rest[1] /\ rest[2].aad = SubSeq(c, 1, h.headerLen)
             THEN rest[2].text
        ELSE <<Authentication>>
=============================================================================
