SPECIFICATION Spec
CONSTANTS
    cleo = cleo
    dan = dan
    hello = hello
    other = other
    ann = ann
    bob = bob
    h1 = h1
    h2 = h2
    Contacts <- TwoContacts
    Messages <- TwoMessages
    From <- Senders
    Users <- TwoUsers
    Eligible <- Volunteers
    Coordinators <- Admins
    Handlers <- TwoHandlers
    MaxConcurrent = 1
    NoUser = NoUser
    NoMessage = NoMessage
    NoContact = NoContact
    MaxFaults = 1
    MaxAsked = 2
    Handled <- OneContact
\* When everything is stored and nobody acts, nothing is left to do.
CHECK_DEADLOCK FALSE
PROPERTY MessageReopens
