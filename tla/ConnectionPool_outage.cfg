SPECIFICATION Spec
CONSTANTS
    l1 = l1
    l2 = l2
    l3 = l3
    prospect = prospect
    attorney = attorney
    Leads = {l1, l2, l3}
    Mails = {prospect, attorney}
    PoolSize = 2
    MaxAttempts = 1
    MaxRetries = 0
PROPERTY OutageSparesSubmissions
