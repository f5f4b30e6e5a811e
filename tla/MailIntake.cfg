SPECIFICATION LiveSpec
CONSTANTS
    Mails = 3
    KeyOf <- Copied
    Answers = {2}
    Broken = {}
    Pollers = {p1, p2}
    Batch = 2
    Cuts = 1
    Resets = 1
    Refills = 1
    None = None
INVARIANTS ReadIsFiled CopiesPerCut
PROPERTIES RecordedIsFinal MailArrives
