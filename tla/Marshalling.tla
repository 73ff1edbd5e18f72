---------------------------- MODULE Marshalling ----------------------------
(***************************************************************************)
(* Marshall and Unmarshall.  A document is a JSON object: values under the *)
(* keys to_string(id_++), that is under numbers, and a header under "req"  *)
(* or "rep".  Neither object goes back to key 0 once it has counted on:    *)
(* Reset and TakeBuf leave id_ alone.                                      *)
(***************************************************************************)
EXTENDS Naturals, Sequences

NoHeader == [key |-> "none", xid |-> 0]
RequestHeader(xid) == [key |-> "req", xid |-> xid]
ReplyHeader(xid) == [key |-> "rep", xid |-> xid]

\* Marshall() and json_.dump().
Marshall == [at |-> [k \in {} |-> 0], header |-> NoHeader, id |-> 0]
Buf(m) == [at |-> m.at, header |-> m.header]

\* m << value, m << header, Reset.
Put(m, v) == [at |-> [k \in DOMAIN m.at \cup {m.id} |-> IF k = m.id THEN v ELSE m.at[k]],
              header |-> m.header, id |-> m.id + 1]
PutHeader(m, h) == [m EXCEPT !.header = h]
Reset(m) == [Marshall EXCEPT !.id = m.id]

\* Unmarshall(buf) and TakeBuf.
Unmarshall(buf) == [json |-> buf, id |-> 0]
TakeBuf(u, buf) == [u EXCEPT !.json = buf]

\* u >> value: at() throws unless Holds; Value is read, Taken the counter after.
Holds(u) == u.id \in DOMAIN u.json.at
Value(u) == u.json.at[u.id]
Taken(u) == [u EXCEPT !.id = @ + 1]
=============================================================================
