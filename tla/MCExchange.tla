----------------------------- MODULE MCExchange ------------------------------
(* Constants of Exchange for TLC: one batch of two filings of which the receiver *)
(* rejects one, and a neighbour firm that files for a client of the same name.   *)
EXTENDS Exchange, TLC

CONSTANTS w1, b1, r1, r2, r3

File(key, tin, reportable, withheld) ==
    [key |-> key, tin |-> tin, reportable |-> reportable, withheld |-> withheld]
OneBatch ==
    b1 :> [client |-> "c", filings |-> << File("k1", "111", 60, 0), File("k2", "000", 127, 7) >>]

TheirDocument == DocumentOf("theirs", "c", << File("k1", "111", 60, 0) >>)
OtherSplit == DocumentOf("theirs", "c", << File("k2", "222", 5, 0), File("k1", "111", 60, 0) >>)

Upload(document) ==
    [authorized |-> TRUE, accept |-> XML, contentType |-> "multipart/form-data",
     parts |-> << [file |-> TRUE, contentType |-> "text/xml", document |-> document] >>]
\* Documents of another firm, and ones that are wrong in one thing.
SomeRequests ==
    LET good == Upload(TheirDocument)
        doubled == << Detail(File("k1", "111", 60, 0)), Detail(File("k1", "111", 60, 0)) >>
    IN  { good, Upload(OtherSplit), Upload([TheirDocument EXCEPT !.transmitter = "ours"]),
          Upload([TheirDocument EXCEPT !.records = doubled, !.count = 2]),
          [good EXCEPT !.authorized = FALSE], [good EXCEPT !.contentType = XML], [good EXCEPT !.parts = <<>>],
          [good EXCEPT !.parts[1].contentType = "text/csv"] }

\* A load balancer's page, an outage and a rate limit in the receiver's format, a
\* body that is cut off, a blank receipt, and a completion without results.
SomeResponses ==
    LET blank == [receipt |-> NoReceipt, utid |-> UTID[b1]]
    IN  { [status |-> 502, contentType |-> "text/html"],
          Response(503, ErrorBody("BUSY")), Response(429, ErrorBody("SLOW_DOWN")),
          [Response(200, ReceiptBody(NoReceipt)) EXCEPT !.cut = TRUE],
          Response(200, ReceiptBody(NoReceipt)),
          Response(200, StatusBody(blank, "Accepted", <<>>)) }

AnyReceipt == Permutations(Receipts)
=============================================================================
