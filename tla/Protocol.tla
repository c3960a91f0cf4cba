------------------------------- MODULE Protocol -------------------------------
(***************************************************************************)
(* The client side of the protocol (shared/index.ts), as operators: how a  *)
(* package is sealed, what a recipient derives from a link and a           *)
(* passphrase, what it verifies before it asks for the retrieval, and      *)
(* when the packet it gets decrypts.  Cryptography is symbolic: a hash, a  *)
(* derived key and a sealed text are terms, equal only when they were      *)
(* made from equal terms.                                                  *)
(***************************************************************************)
(* The random values drawn for a package n.                                *)
Secret(n) == <<"secret", n>>
Salt(n) == <<"salt", n>>
RevokeToken(n) == <<"revoke", n>>

Hash(term) == <<"hash", term>>
Peek(secret, id) == <<"peek", secret, id>>

NoPassphrase == ""

(* contentKeys: the passphrase enters the material only of a package that  *)
(* was sealed with one.                                                    *)
Material(secret, header, passphrase) ==
    <<secret, IF header.kdf = "argon2id" THEN <<passphrase, header.salt>> ELSE <<>> >>
Key(secret, header, passphrase) ==
    <<"aead", Material(secret, header, passphrase), header.id, header.kdf>>
ReadToken(secret, header, passphrase) ==
    <<"read", Material(secret, header, passphrase), header.id, header.kdf>>

(* create, with the header that authenticates the sealed content.          *)
Create(n, content, passphrase) ==
    LET unread == [id |-> n, peek |-> Hash(Peek(Secret(n), n)), read |-> <<>>,
                   revoke |-> Hash(RevokeToken(n)),
                   kdf |-> IF passphrase = NoPassphrase THEN "none" ELSE "argon2id",
                   salt |-> IF passphrase = NoPassphrase THEN <<>> ELSE Salt(n)]
        header == [unread EXCEPT !.read = Hash(ReadToken(Secret(n), unread, passphrase))]
    IN  [header |-> header,
         sealed |-> [key |-> Key(Secret(n), header, passphrase),
                     header |-> header, content |-> content]]

(* prepareOpen, for the link of package id: what makes it throw or not.    *)
Prepares_Unread(header, secret, id, passphrase) ==
    /\ header.id = id
    /\ Hash(Peek(secret, id)) = header.peek
    /\ header.kdf = "argon2id" => passphrase # NoPassphrase
Prepares(header, secret, id, passphrase) ==
    /\ header.id = id
    /\ Hash(Peek(secret, id)) = header.peek
    /\ header.kdf = "argon2id" => passphrase # NoPassphrase
    /\ Hash(ReadToken(secret, header, passphrase)) = header.read

(* decrypt, of a packet and what was prepared from its header.             *)
Decrypts_Anything(packet, header, key) == TRUE
Decrypts(packet, header, key) ==
    /\ packet.header = header
    /\ packet.sealed.key = key /\ packet.sealed.header = packet.header
===============================================================================
