------------------------------ MODULE MCExchange ------------------------------
EXTENDS Exchange

A(tenant, channel, address, secret) ==
    [tenant |-> tenant, channel |-> channel, address |-> address, secret |-> secret]
MCAccounts == { A("nile", "whatsapp", "+20", "k1"), A("delta", "telegram", "@delta", "k4"),
                A("nile", "messenger", "page1", "k1"),
                A("delta", "messenger", "page2", "k2"), A("nile", "email", "ask@nile", "k3") }
MCSpares   == { A("nile", "messenger", "page3", "k1") }

Said(to, from, id, kind) ==
    [to |-> to, from |-> from, id |-> id, kind |-> kind, refs |-> <<>>, irt |-> NULL, said |-> 0,
     person |-> kind = "message", root |-> NULL]
MCChats == { [vendor |-> "twilio", key |-> "k1", object |-> NULL,
              events |-> {Said("+20", "ali", 100, "message")}],
             [vendor |-> "telegram", key |-> "k4", object |-> NULL,
              events |-> {Said("@delta", "fay", 7, "message"), Said("@delta", "fay", 8, "edit")}],
             [vendor |-> "meta", key |-> AppSecret, object |-> "page",
              events |-> {Said("page1", "bob", 101, "message"), Said("page2", "cyd", 102, "message"),
                          Said("page1", "bob", 103, "receipt")}] }
MCMailers == { [from |-> "dina", references |-> TRUE], [from |-> "eli", references |-> FALSE] }
=============================================================================
